---------------------------- MODULE Spec2Model ----------------------------
(***************************************************************************)
(* A model of the NES core of maskudo/nes-rust: the 6502 interpreter       *)
(* (src/src/cpu.rs), the memory bus (src/src/bus.rs) and the PPU address   *)
(* and control registers (src/src/ppu.rs).                                 *)
(*                                                                         *)
(* The machine state is one record, cpu, holding the fields of struct CPU  *)
(* and of the Bus it owns.  Every Rust function becomes an operator from   *)
(* a machine record to a machine record (or to a pair of a machine record  *)
(* and a returned value), so that a panic raised half way through a        *)
(* function leaves exactly the writes made before it.                      *)
(*                                                                         *)
(* The two byte arrays (cpu_vram, prg_rom) are kept as finite maps from    *)
(* index to NON-ZERO byte: an index outside the map's domain holds 0.      *)
(* This is the array itself, written without its zero cells.               *)
(***************************************************************************)
EXTENDS Integers, Sequences, FiniteSets, TLC

VARIABLES
    cpu,      \* struct CPU with its Bus; cpu.panic is the thread's panic, if any
    cart,     \* the Rom handed to Bus::new (never written afterwards)
    phase,    \* where the host is: "host", in the run loop ("run"), or after it ("returned")
    last,     \* the last operation performed: its name, arguments and returned value
    prev,     \* the machine record before the last operation
    nops,     \* how many host operations have been performed
    shadow,   \* a ghost of the stack: S at the start, the bytes pushed and not yet
              \* popped (oldest first) and the deepest nesting reached
    given,    \* what the run started from: the machine as first set up (a scripted
              \* scenario adds the values its script uses); never written afterwards
    ppu       \* struct PPU with its address and control registers, once one is
              \* constructed; ppu.panic is the thread's panic, if any

vars == <<cpu, cart, phase, last, prev, nops, shadow, given, ppu>>

---------------------------------------------------------------------------
(* Unsigned machine arithmetic *)

RECURSIVE BitAnd(_, _)
BitAnd(a, b) ==
    IF a = 0 \/ b = 0 THEN 0
    ELSE (a % 2) * (b % 2) + 2 * BitAnd(a \div 2, b \div 2)

RECURSIVE BitOr(_, _)
BitOr(a, b) ==
    IF a = 0 THEN b
    ELSE IF b = 0 THEN a
    ELSE (IF a % 2 = 1 \/ b % 2 = 1 THEN 1 ELSE 0) + 2 * BitOr(a \div 2, b \div 2)

RECURSIVE BitXor(_, _)
BitXor(a, b) ==
    IF a = 0 THEN b
    ELSE IF b = 0 THEN a
    ELSE ((a + b) % 2) + 2 * BitXor(a \div 2, b \div 2)

\* v as u8 / v as u16: truncation to the low bits
AsU8(v) == v % 256
AsU16(v) == v % 65536

\* (v as i8) as a signed number, and (v as i8) as u16 (sign extension)
AsI8(v) == IF v >= 128 THEN v - 256 ELSE v
SignExtend(v) == IF v >= 128 THEN v + 65280 ELSE v

\* u8 << n, u8 >> n, u16 << n and u16 >> n
Shl8(v, n) == (v * (2 ^ n)) % 256
Shr8(v, n) == v \div (2 ^ n)
Shl16(v, n) == (v * (2 ^ n)) % 65536
Shr16(v, n) == v \div (2 ^ n)

\* u8::wrapping_add / wrapping_sub, u16::wrapping_add
wrapping_add_u8(a, b) == (a + b) % 256
wrapping_sub_u8(a, b) == (a - b + 256) % 256
wrapping_add_u16(a, b) == (a + b) % 65536

Byte == 0 .. 255

---------------------------------------------------------------------------
(* Panics and returned values *)

NoPanic == "none"

\* a function's result: the machine after it and the value it returns
Ret(c, v) == [c |-> c, v |-> v]

\* `let x = e; body` is written With({ body : x \in { e } }): the value of body with
\* x bound to the value of e, which is computed once
With(S) == CHOOSE r \in S : TRUE

\* the thread panics: nothing after it runs
Panic(c, msg) == IF c.panic = NoPanic THEN [c EXCEPT !.panic = msg] ELSE c

\* a + b on u16 with Rust's `+`: the build decides whether overflow panics
\* (overflow-checks on, as in a debug build) or wraps (a release build)
add_u16(c, a, b) ==
    IF c.panic # NoPanic THEN Ret(c, 0)
    ELSE IF a + b > 65535
         THEN IF c.overflow_checks
              THEN Ret(Panic(c, "attempt to add with overflow"), 0)
              ELSE Ret(c, (a + b) % 65536)
         ELSE Ret(c, a + b)

\* arr[i] of a Rust array or Vec of length len, and arr[i] = v
Elem(arr, i) == IF i \in DOMAIN arr THEN arr[i] ELSE 0

Store(arr, i, v) ==
    IF v = 0
    THEN [j \in (DOMAIN arr) \ {i} |-> arr[j]]
    ELSE [j \in (DOMAIN arr) \cup {i} |-> IF j = i THEN v ELSE arr[j]]

EmptyArr == [j \in {} |-> 0]

---------------------------------------------------------------------------
(* bus.rs *)

\* 0x0000, 0x1FFF, 0x2000 and 0x3FFF
RAM == 0
RAM_MIRROR_END == 8191
PPU_REGISTERS == 8192
PPU_REGISTERS_MIRRORS_END == 16383
\* the length of cpu_vram, [u8; 0x800]
CPU_VRAM_LEN == 2048
\* where program ROM starts in the address space, 0x8000, and the size of a 16 KiB
\* ROM, 0x4000
PRG_ROM_START == 32768
PRG_ROM_PAGE == 16384

\* a read of program ROM that never wraps the index: not the code's, and
\* C22_PrgRomRead tells the two apart
read_prg_rom_unwrapped(c, addr0) ==
    With({
        IF addr >= c.rom.len
        THEN Ret(Panic(c, "index out of bounds"), 0)
        ELSE Ret(c, Elem(c.rom.prg_rom, addr))
      : addr \in { addr0 - PRG_ROM_START } })

\* Bus::read_prg_rom
read_prg_rom(c, addr0) ==
    With({ With({
        IF addr >= c.rom.len
        THEN Ret(Panic(c, "index out of bounds"), 0)
        ELSE Ret(c, Elem(c.rom.prg_rom, addr))
      : addr \in { IF c.rom.len = PRG_ROM_PAGE /\ addr1 >= PRG_ROM_PAGE
                   THEN addr1 % PRG_ROM_PAGE
                   ELSE addr1 } })
      : addr1 \in { addr0 - PRG_ROM_START } })

\* the RAM arm of Bus::mem_read
RamRead(c, addr) ==
    With({
        IF mirror_down_addr >= CPU_VRAM_LEN
        THEN Ret(Panic(c, "index out of bounds"), 0)
        ELSE Ret(c, Elem(c.cpu_vram, mirror_down_addr))
      : mirror_down_addr \in { BitAnd(addr, \h07FF) } })

\* the PPU register arm of Bus::mem_read
PpuRead(c, addr) == Ret(Panic(c, "not yet implemented: PPU not supported yet"), 0)

\* the arm of Bus::mem_read for every other address
IgnoredRead(c, addr) == Ret(c, 0)

\* <Bus as Mem>::mem_read, reached through <CPU as Mem>::mem_read
mem_read(c, addr) ==
    IF c.panic # NoPanic THEN Ret(c, 0)
    ELSE IF addr >= RAM /\ addr <= RAM_MIRROR_END THEN RamRead(c, addr)
    ELSE IF addr >= PPU_REGISTERS /\ addr <= PPU_REGISTERS_MIRRORS_END THEN PpuRead(c, addr)
    ELSE IF addr >= PRG_ROM_START /\ addr <= \hFFFF THEN read_prg_rom(c, addr)
    ELSE IgnoredRead(c, addr)

\* a RAM arm that keeps ten address bits instead of eleven: not the code's, and
\* C7_RamMirrored tells the two apart
RamWriteTenBits(c, addr, data) ==
    With({
        [c EXCEPT !.cpu_vram = Store(c.cpu_vram, mirror_down_addr, data)]
      : mirror_down_addr \in { BitAnd(addr, \h03FF) } })

\* the RAM arm of Bus::mem_write
RamWrite(c, addr, data) ==
    With({
        IF mirror_down_addr >= CPU_VRAM_LEN
        THEN Panic(c, "index out of bounds")
        ELSE [c EXCEPT !.cpu_vram = Store(c.cpu_vram, mirror_down_addr, data)]
      : mirror_down_addr \in { BitAnd(addr, \h07FF) } })

\* the PPU register arm of Bus::mem_write
PpuWrite(c, addr, data) == Panic(c, "not yet implemented: PPU is not supported yet")

\* a ROM arm that drops the write without failing: not the code's, and
\* C6_RomReadOnly tells the two apart
RomWriteDropped(c, addr, data) == c

\* the program ROM arm of Bus::mem_write
RomWrite(c, addr, data) == Panic(c, "Attempt to write to Cartridge ROM space")

\* <Bus as Mem>::mem_write, reached through <CPU as Mem>::mem_write
mem_write(c, addr, data) ==
    IF c.panic # NoPanic THEN c
    ELSE IF addr >= RAM /\ addr <= RAM_MIRROR_END THEN RamWrite(c, addr, data)
    ELSE IF addr >= PPU_REGISTERS /\ addr <= PPU_REGISTERS_MIRRORS_END THEN PpuWrite(c, addr, data)
    ELSE IF addr >= PRG_ROM_START /\ addr <= \hFFFF THEN RomWrite(c, addr, data)
    ELSE c

\* Mem::mem_read_u16 (the trait's default, which Bus inherits)
mem_read_u16(c, pos) ==
    With({ With({ With({
        Ret(high.c, BitOr(Shl16(high.v, 8), low.v))
      : high \in { mem_read(nxt.c, nxt.v) } })
      : nxt \in { add_u16(low.c, pos, 1) } })
      : low \in { mem_read(c, pos) } })

\* a 16-bit write that stores the high byte first: not the code's, and
\* C8_RoundTripInRam tells the two apart
mem_write_u16_high_first(c, pos, data) ==
    With({ With({ With({ With({
        mem_write(nxt.c, nxt.v, low)
      : nxt \in { add_u16(c1, pos, 1) } })
      : c1 \in { mem_write(c, pos, high) } })
      : low \in { AsU8(BitAnd(data, \hFF)) } })
      : high \in { AsU8(Shr16(data, 8)) } })

\* Mem::mem_write_u16 (the trait's default, which Bus inherits)
mem_write_u16(c, pos, data) ==
    With({ With({ With({ With({
        mem_write(nxt.c, nxt.v, high)
      : nxt \in { add_u16(c1, pos, 1) } })
      : c1 \in { mem_write(c, pos, low) } })
      : low \in { AsU8(BitAnd(data, \hFF)) } })
      : high \in { AsU8(Shr16(data, 8)) } })

---------------------------------------------------------------------------
(* cpu.rs: the status flags, CPU::new, reset, load *)

\* bits 0 to 7 of the status byte
CARRY == 1
ZERO == 2
INTERRUPT_DISABLE == 4
DECIMAL_MODE == 8
BREAK == 16
UNUSED == 32
OVERFLOW == 64
NEGATIVE == 128

\* 0x0100 and 0xFD
STACK == 256
STACK_RESET == 253

\* Flags::contains, Flags::insert, Flags::remove, Flags::set on a status byte
contains(status, flag) == BitAnd(status, flag) = flag
insert(status, flag) == BitOr(status, flag)
remove(status, flag) == BitAnd(status, 255 - flag)
set(status, flag, value) == IF value THEN insert(status, flag) ELSE remove(status, flag)

\* assignments to the fields of CPU; none happens once the thread has panicked
SetA(c, v) == IF c.panic # NoPanic THEN c ELSE [c EXCEPT !.register_a = v]
SetX(c, v) == IF c.panic # NoPanic THEN c ELSE [c EXCEPT !.register_x = v]
SetY(c, v) == IF c.panic # NoPanic THEN c ELSE [c EXCEPT !.register_y = v]
SetStatus(c, v) == IF c.panic # NoPanic THEN c ELSE [c EXCEPT !.status = v]
SetPC(c, v) == IF c.panic # NoPanic THEN c ELSE [c EXCEPT !.program_counter = v]
SetSP(c, v) == IF c.panic # NoPanic THEN c ELSE [c EXCEPT !.stack_ptr = v]

\* CPU::set_flag and CPU::clear_flag
set_flag(c, flag) == SetStatus(c, insert(c.status, flag))
clear_flag(c, flag) == SetStatus(c, remove(c.status, flag))

\* CPU::new(Bus::new(rom)), in a build with or without overflow checks
CpuNew(rom, checks) ==
    [ register_a |-> 0, register_x |-> 0, register_y |-> 0,
      status |-> \h24,
      program_counter |-> 0,
      stack_ptr |-> STACK_RESET,
      cpu_vram |-> EmptyArr,
      rom |-> rom,
      panic |-> NoPanic,
      overflow_checks |-> checks ]

\* a reset that takes the program counter from the vector at 0xFFFE: not the
\* code's, and C10_ResetState tells the two apart
reset_from_FFFE(c) ==
    With({ With({
        SetPC(vec.c, vec.v)
      : vec \in { mem_read_u16(SetStatus(c4, \h24), \hFFFE) } })
      : c4 \in { SetSP(SetY(SetX(SetA(c, 0), 0), 0), STACK_RESET) } })

\* CPU::reset
reset(c) ==
    With({ With({ With({ With({ With({ With({
        SetPC(vec.c, vec.v)
      : vec \in { mem_read_u16(c5, \hFFFC) } })
      : c5 \in { SetStatus(c4, \h24) } })
      : c4 \in { SetSP(c3, STACK_RESET) } })
      : c3 \in { SetY(c2, 0) } })
      : c2 \in { SetX(c1, 0) } })
      : c1 \in { SetA(c, 0) } })

\* CPU::load: the loop over the bytes of the program, from byte i on
RECURSIVE LoadFrom(_, _, _)
LoadFrom(c, program, i) ==
    IF i >= Len(program) THEN c
    ELSE With({
             LoadFrom(mem_write(a.c, a.v, program[i + 1]), program, i + 1)
           : a \in { add_u16(c, \h0600, i) } })

load(c, program) == LoadFrom(c, program, 0)

\* a flag update that sets Zero for a zero result but never clears it: not the
\* code's, and C19_ZeroNegativeFollowResult tells the two apart
update_flags_zero_sticky(c, result) ==
    With({
        IF BitAnd(result, \h80) # 0 THEN set_flag(c1, NEGATIVE) ELSE clear_flag(c1, NEGATIVE)
      : c1 \in { IF result = 0 THEN set_flag(c, ZERO) ELSE c } })

\* CPU::update_zero_and_negative_flags
update_zero_and_negative_flags(c, result) ==
    With({
        IF BitAnd(result, \h80) # 0 THEN set_flag(c1, NEGATIVE) ELSE clear_flag(c1, NEGATIVE)
      : c1 \in { IF result = 0 THEN set_flag(c, ZERO) ELSE clear_flag(c, ZERO) } })

\* CPU::update_carry_flag
update_carry_flag(c, result) ==
    IF Shr8(result, 7) = 1 THEN set_flag(c, CARRY) ELSE clear_flag(c, CARRY)

\* CPU::stack_push
stack_push(c, data) ==
    With({
        SetSP(c1, wrapping_sub_u8(c.stack_ptr, 1))
      : c1 \in { mem_write(c, STACK + c.stack_ptr, data) } })

\* CPU::stack_push_u16
stack_push_u16(c, data) ==
    With({ With({
        stack_push(stack_push(c, high), low)
      : low \in { AsU8(BitAnd(data, \hFF)) } })
      : high \in { AsU8(Shr16(data, 8)) } })

\* a pop that reads before it increments S: not the code's, and
\* C9_StackLifoWithin256 tells the two apart
stack_pop_read_first(c) ==
    With({
        Ret(SetSP(r.c, wrapping_add_u8(c.stack_ptr, 1)), r.v)
      : r \in { mem_read(c, STACK + c.stack_ptr) } })

\* CPU::stack_pop
stack_pop(c) ==
    With({
        mem_read(c1, STACK + c1.stack_ptr)
      : c1 \in { SetSP(c, wrapping_add_u8(c.stack_ptr, 1)) } })

\* CPU::stack_pop_u16
stack_pop_u16(c) ==
    With({ With({
        Ret(high.c, BitOr(Shl16(high.v, 8), low.v))
      : high \in { stack_pop(low.c) } })
      : low \in { stack_pop(c) } })

\* an addition whose carry out is taken at 0xFF instead of above it: not the code's,
\* and C11_AdcSum tells the two apart
add_to_register_a_carry_at_FF(c, value) ==
    With({ With({ With({ With({ With({ With({
        update_zero_and_negative_flags(c3, result)
      : c3 \in { SetA(c2, result) } })
      : c2 \in { IF BitAnd(BitAnd(BitXor(value, result), BitXor(result, c.register_a)), \h80) # 0
                 THEN set_flag(c1, OVERFLOW)
                 ELSE clear_flag(c1, OVERFLOW) } })
      : result \in { AsU8(sum) } })
      : c1 \in { IF carry THEN set_flag(c, CARRY) ELSE clear_flag(c, CARRY) } })
      : carry \in { sum >= \hFF } })
      : sum \in { c.register_a + value + (IF contains(c.status, CARRY) THEN 1 ELSE 0) } })

\* CPU::add_to_register_a
add_to_register_a(c, value) ==
    With({ With({ With({ With({ With({ With({
        update_zero_and_negative_flags(c3, result)
      : c3 \in { SetA(c2, result) } })
      : c2 \in { IF BitAnd(BitAnd(BitXor(value, result), BitXor(result, c.register_a)), \h80) # 0
                 THEN set_flag(c1, OVERFLOW)
                 ELSE clear_flag(c1, OVERFLOW) } })
      : result \in { AsU8(sum) } })
      : c1 \in { IF carry THEN set_flag(c, CARRY) ELSE clear_flag(c, CARRY) } })
      : carry \in { sum > \hFF } })
      : sum \in { c.register_a + value + (IF contains(c.status, CARRY) THEN 1 ELSE 0) } })

\* an address computation whose pointers leave page zero: the indexed zero page
\* modes carry into page one, and the high byte of an indirect pointer is read at
\* the next address even past 0x00FF. Not the code's, and C31_ZeroPageWraps tells
\* the two apart
get_operand_address_leaving_page_zero(c, mode) ==
    CASE mode = "Immediate" -> Ret(c, c.program_counter)
      [] mode = "ZeroPage" -> mem_read(c, c.program_counter)
      [] mode = "Absolute" -> mem_read_u16(c, c.program_counter)
      [] mode = "ZeroPage_X" ->
            With({
                Ret(iaddr.c, iaddr.v + c.register_x)
              : iaddr \in { mem_read(c, c.program_counter) } })
      [] mode = "ZeroPage_Y" ->
            With({
                Ret(iaddr.c, iaddr.v + c.register_y)
              : iaddr \in { mem_read(c, c.program_counter) } })
      [] mode = "Absolute_X" ->
            With({
                Ret(base.c, wrapping_add_u16(base.v, c.register_x))
              : base \in { mem_read_u16(c, c.program_counter) } })
      [] mode = "Absolute_Y" ->
            With({
                Ret(base.c, wrapping_add_u16(base.v, c.register_y))
              : base \in { mem_read_u16(c, c.program_counter) } })
      [] mode = "Indirect_X" ->
            With({ With({ With({ With({
                Ret(hi.c, BitOr(Shl16(hi.v, 8), lo.v))
              : hi \in { mem_read(lo.c, ptr + 1) } })
              : lo \in { mem_read(base.c, ptr) } })
              : ptr \in { base.v + c.register_x } })
              : base \in { mem_read(c, c.program_counter) } })
      [] mode = "Indirect_Y" ->
            With({ With({ With({ With({
                Ret(hi.c, wrapping_add_u16(deref_base, c.register_y))
              : deref_base \in { BitOr(Shl16(hi.v, 8), lo.v) } })
              : hi \in { mem_read(lo.c, base.v + 1) } })
              : lo \in { mem_read(base.c, base.v) } })
              : base \in { mem_read(c, c.program_counter) } })
      [] OTHER -> Ret(Panic(c, "mode NoneAddressing is not supported"), 0)

\* CPU::get_operand_address
get_operand_address(c, mode) ==
    CASE mode = "Immediate" -> Ret(c, c.program_counter)
      [] mode = "ZeroPage" -> mem_read(c, c.program_counter)
      [] mode = "Absolute" -> mem_read_u16(c, c.program_counter)
      [] mode = "ZeroPage_X" ->
            With({
                Ret(iaddr.c, wrapping_add_u8(iaddr.v, c.register_x))
              : iaddr \in { mem_read(c, c.program_counter) } })
      [] mode = "ZeroPage_Y" ->
            With({
                Ret(iaddr.c, wrapping_add_u8(iaddr.v, c.register_y))
              : iaddr \in { mem_read(c, c.program_counter) } })
      [] mode = "Absolute_X" ->
            With({
                Ret(base.c, wrapping_add_u16(base.v, c.register_x))
              : base \in { mem_read_u16(c, c.program_counter) } })
      [] mode = "Absolute_Y" ->
            With({
                Ret(base.c, wrapping_add_u16(base.v, c.register_y))
              : base \in { mem_read_u16(c, c.program_counter) } })
      [] mode = "Indirect_X" ->
            With({ With({ With({ With({
                Ret(hi.c, BitOr(Shl16(hi.v, 8), lo.v))
              : hi \in { mem_read(lo.c, wrapping_add_u8(ptr, 1)) } })
              : lo \in { mem_read(base.c, ptr) } })
              : ptr \in { wrapping_add_u8(base.v, c.register_x) } })
              : base \in { mem_read(c, c.program_counter) } })
      [] mode = "Indirect_Y" ->
            With({ With({ With({ With({
                Ret(hi.c, wrapping_add_u16(deref_base, c.register_y))
              : deref_base \in { BitOr(Shl16(hi.v, 8), lo.v) } })
              : hi \in { mem_read(lo.c, wrapping_add_u8(base.v, 1)) } })
              : lo \in { mem_read(base.c, base.v) } })
              : base \in { mem_read(c, c.program_counter) } })
      [] OTHER -> Ret(Panic(c, "mode NoneAddressing is not supported"), 0)

\* `let addr = self.get_operand_address(mode); let value = self.mem_read(addr);`
Operand(c, mode) ==
    With({ With({
        [c |-> value.c, v |-> value.v, addr |-> addr.v]
      : value \in { mem_read(addr.c, addr.v) } })
      : addr \in { get_operand_address(c, mode) } })

---------------------------------------------------------------------------
(* cpu.rs: the instruction handlers *)

\* an ADC that adds six more when DecimalMode is set and the low digits pass nine, as
\* a 6502 with BCD does: not the code's, and C23_DecimalModeIgnored tells the two apart
adc_decimal(c, mode) ==
    With({
        add_to_register_a(o.c,
            IF contains(c.status, DECIMAL_MODE)
               /\ (c.register_a % 16) + (o.v % 16) + BitAnd(c.status, CARRY) > 9
            THEN wrapping_add_u8(o.v, 6)
            ELSE o.v)
      : o \in { Operand(c, mode) } })

\* CPU::adc
adc(c, mode) ==
    With({
        add_to_register_a(o.c, o.v)
      : o \in { Operand(c, mode) } })

\* CPU::and
and(c, mode) ==
    With({ With({
        update_zero_and_negative_flags(SetA(o.c, result), result)
      : result \in { BitAnd(c.register_a, o.v) } })
      : o \in { Operand(c, mode) } })

\* CPU::asl; returns the shifted byte
asl(c, mode) ==
    IF mode = "NoneAddressing"
    THEN With({ With({ With({
             Ret(update_zero_and_negative_flags(c2, Shl8(data, 1)), Shl8(data, 1))
           : c2 \in { SetA(c1, Shl8(data, 1)) } })
           : c1 \in { update_carry_flag(c, data) } })
           : data \in { c.register_a } })
    ELSE With({ With({ With({ With({
             Ret(update_zero_and_negative_flags(c2, result), result)
           : c2 \in { mem_write(c1, o.addr, result) } })
           : result \in { Shl8(o.v, 1) } })
           : c1 \in { update_carry_flag(o.c, o.v) } })
           : o \in { Operand(c, mode) } })

\* CPU::branch
branch(c, condition) ==
    IF condition
    THEN With({ With({
             SetPC(jump.c, addr)
           : addr \in { wrapping_add_u16(wrapping_add_u16(c.program_counter, 1),
                                         SignExtend(jump.v)) } })
           : jump \in { mem_read(c, c.program_counter) } })
    ELSE c

\* CPU::bit
bit(c, mode) ==
    With({ With({ With({ With({ With({
        SetStatus(o.c, s3)
      : s3 \in { set(s2, OVERFLOW, BitAnd(o.v, \h40) > 0) } })
      : s2 \in { set(s1, NEGATIVE, BitAnd(o.v, \h80) > 0) } })
      : s1 \in { IF result = 0 THEN insert(o.c.status, ZERO) ELSE remove(o.c.status, ZERO) } })
      : result \in { BitAnd(c.register_a, o.v) } })
      : o \in { Operand(c, mode) } })

\* a compare that sets the carry only when the operand is below the register: not
\* the code's, and C13_CompareFlags tells the two apart
compare_below(c, mode, compare_with_reg) ==
    With({ With({ With({
        update_zero_and_negative_flags(c1, result)
      : c1 \in { IF o.v < compare_with_reg THEN set_flag(o.c, CARRY) ELSE clear_flag(o.c, CARRY) } })
      : result \in { wrapping_sub_u8(compare_with_reg, o.v) } })
      : o \in { Operand(c, mode) } })

\* CPU::compare
compare(c, mode, compare_with_reg) ==
    With({ With({ With({
        update_zero_and_negative_flags(c1, result)
      : c1 \in { IF o.v <= compare_with_reg THEN set_flag(o.c, CARRY) ELSE clear_flag(o.c, CARRY) } })
      : result \in { wrapping_sub_u8(compare_with_reg, o.v) } })
      : o \in { Operand(c, mode) } })

\* CPU::dec
dec(c, mode) ==
    With({ With({
        update_zero_and_negative_flags(mem_write(o.c, o.addr, result), result)
      : result \in { wrapping_sub_u8(o.v, 1) } })
      : o \in { Operand(c, mode) } })

\* CPU::dex and CPU::dey
dex(c) ==
    With({
        update_zero_and_negative_flags(SetX(c, v), v)
      : v \in { wrapping_sub_u8(c.register_x, 1) } })

dey(c) ==
    With({
        update_zero_and_negative_flags(SetY(c, v), v)
      : v \in { wrapping_sub_u8(c.register_y, 1) } })

\* CPU::eor
eor(c, mode) ==
    With({ With({
        update_zero_and_negative_flags(SetA(o.c, result), result)
      : result \in { BitXor(c.register_a, o.v) } })
      : o \in { Operand(c, mode) } })

\* CPU::inc; returns the incremented byte
inc(c, mode) ==
    With({ With({
        Ret(update_zero_and_negative_flags(mem_write(o.c, o.addr, result), result), result)
      : result \in { wrapping_add_u8(o.v, 1) } })
      : o \in { Operand(c, mode) } })

\* CPU::inx and CPU::iny
inx(c) ==
    With({
        update_zero_and_negative_flags(SetX(c, v), v)
      : v \in { wrapping_add_u8(c.register_x, 1) } })

iny(c) ==
    With({
        update_zero_and_negative_flags(SetY(c, v), v)
      : v \in { wrapping_add_u8(c.register_y, 1) } })

\* CPU::lda, CPU::ldx, CPU::ldy
lda(c, mode) ==
    With({
        update_zero_and_negative_flags(SetA(o.c, o.v), o.v)
      : o \in { Operand(c, mode) } })

ldx(c, mode) ==
    With({
        update_zero_and_negative_flags(SetX(o.c, o.v), o.v)
      : o \in { Operand(c, mode) } })

ldy(c, mode) ==
    With({
        update_zero_and_negative_flags(SetY(o.c, o.v), o.v)
      : o \in { Operand(c, mode) } })

\* CPU::lsr_acc
lsr_acc(c) ==
    With({ With({
        update_zero_and_negative_flags(SetA(c1, Shr8(data, 1)), Shr8(data, 1))
      : c1 \in { IF BitAnd(data, 1) = 1 THEN set_flag(c, CARRY) ELSE clear_flag(c, CARRY) } })
      : data \in { c.register_a } })

\* CPU::lsr; returns the shifted byte
lsr(c, mode) ==
    With({ With({ With({
        Ret(update_zero_and_negative_flags(mem_write(c1, o.addr, data), data), data)
      : data \in { Shr8(o.v, 1) } })
      : c1 \in { IF BitAnd(o.v, 1) = 1 THEN set_flag(o.c, CARRY) ELSE clear_flag(o.c, CARRY) } })
      : o \in { Operand(c, mode) } })

\* CPU::ora
ora(c, mode) ==
    With({ With({
        update_zero_and_negative_flags(SetA(o.c, result), result)
      : result \in { BitOr(c.register_a, o.v) } })
      : o \in { Operand(c, mode) } })

\* CPU::php
php(c) ==
    With({
        stack_push(c, flags)
      : flags \in { insert(insert(c.status, BREAK), UNUSED) } })

\* the value ROL leaves: value << 1, with the old carry in bit 0
RolValue(value, old_carry) ==
    IF old_carry THEN BitOr(Shl8(value, 1), 1) ELSE Shl8(value, 1)

\* a rotation that puts the old carry into bit 6: not the code's, and
\* C14_ShiftRotate tells the two apart
RorValueBit6(value, old_carry) ==
    IF old_carry THEN BitOr(Shr8(value, 1), \h40) ELSE Shr8(value, 1)

\* the value ROR leaves: value >> 1, with the old carry in bit 7
RorValue(value, old_carry) ==
    IF old_carry THEN BitOr(Shr8(value, 1), \h80) ELSE Shr8(value, 1)

\* CPU::rol_acc
rol_acc(c) ==
    With({ With({ With({ With({
        update_zero_and_negative_flags(SetA(c1, v2), v2)
      : v2 \in { RolValue(value, old_carry) } })
      : c1 \in { IF Shr8(value, 7) = 1 THEN set_flag(c, CARRY) ELSE clear_flag(c, CARRY) } })
      : old_carry \in { contains(c.status, CARRY) } })
      : value \in { c.register_a } })

\* CPU::rol; returns the rotated byte
rol(c, mode) ==
    With({ With({ With({ With({
        Ret(update_zero_and_negative_flags(mem_write(c1, o.addr, v2), v2), v2)
      : v2 \in { RolValue(o.v, old_carry) } })
      : c1 \in { IF Shr8(o.v, 7) = 1 THEN set_flag(o.c, CARRY) ELSE clear_flag(o.c, CARRY) } })
      : old_carry \in { contains(o.c.status, CARRY) } })
      : o \in { Operand(c, mode) } })

\* CPU::ror_acc
ror_acc(c) ==
    With({ With({ With({ With({
        update_zero_and_negative_flags(SetA(c1, v2), v2)
      : v2 \in { RorValue(value, old_carry) } })
      : c1 \in { IF BitAnd(value, 1) = 1 THEN set_flag(c, CARRY) ELSE clear_flag(c, CARRY) } })
      : old_carry \in { contains(c.status, CARRY) } })
      : value \in { c.register_a } })

\* CPU::ror; returns the rotated byte
ror(c, mode) ==
    With({ With({ With({ With({
        Ret(update_zero_and_negative_flags(mem_write(c1, o.addr, v2), v2), v2)
      : v2 \in { RorValue(o.v, old_carry) } })
      : c1 \in { IF BitAnd(o.v, 1) = 1 THEN set_flag(o.c, CARRY) ELSE clear_flag(o.c, CARRY) } })
      : old_carry \in { contains(o.c.status, CARRY) } })
      : o \in { Operand(c, mode) } })

\* the two's complement alone, without the `wrapping_sub(1)`: not the code's, and
\* C12_SbcIsAdcOfComplement tells the two apart
NegOnly(value) == wrapping_sub_u8(0, value)

\* `(value as i8).wrapping_neg().wrapping_sub(1) as u8`
NegSubOne(value) == wrapping_sub_u8(wrapping_sub_u8(0, value), 1)

\* CPU::sbc
sbc(c, mode) ==
    With({
        add_to_register_a(o.c, NegSubOne(o.v))
      : o \in { Operand(c, mode) } })

---------------------------------------------------------------------------
(* opcodes.rs is not among the source files: the decode table OPCODE_MAP   *)
(* is written from the specification's description of it (opcode ->        *)
(* {mnemonic, length, cycles, addressing mode}, every opcode mapped, every *)
(* length 1, 2 or 3) with the 6502's standard encodings.                   *)

ImmediateOps ==
    { \h69, \h29, \hC9, \hE0, \hC0, \h49, \hA9, \hA2, \hA0, \h09, \hE9,
      \h0B, \h2B, \h6B, \h4B, \hAB, \hCB, \h80, \h82, \h89, \hC2, \hE2, \hEB, \h8B }

ZeroPageOps ==
    { \h65, \h25, \h06, \h24, \hC5, \hE4, \hC4, \hC6, \h45, \hE6, \hA5, \hA6, \hA4,
      \h46, \h05, \h26, \h66, \hE5, \h85, \h86, \h84,
      \h87, \hC7, \h04, \h44, \h64, \hE7, \hA7, \h27, \h67, \h07, \h47 }

ZeroPageXOps ==
    { \h75, \h35, \h16, \hD5, \hD6, \h55, \hF6, \hB5, \hB4, \h56, \h15, \h36, \h76,
      \hF5, \h95, \h94,
      \hD7, \h14, \h34, \h54, \h74, \hD4, \hF4, \hF7, \h37, \h77, \h17, \h57 }

ZeroPageYOps == { \hB6, \h96, \h97, \hB7 }

AbsoluteOps ==
    { \h6D, \h2D, \h0E, \h2C, \hCD, \hEC, \hCC, \hCE, \h4D, \hEE, \hAD, \hAE, \hAC,
      \h4E, \h0D, \h2E, \h6E, \hED, \h8D, \h8E, \h8C,
      \h8F, \hCF, \hEF, \hAF, \h2F, \h6F, \h0F, \h4F, \h0C }

AbsoluteXOps ==
    { \h7D, \h3D, \h1E, \hDD, \hDE, \h5D, \hFE, \hBD, \hBC, \h5E, \h1D, \h3E, \h7E,
      \hFD, \h9D,
      \hDF, \hFF, \h3F, \h7F, \h1F, \h5F, \h1C, \h3C, \h5C, \h7C, \hDC, \hFC, \h9C }

AbsoluteYOps ==
    { \h79, \h39, \hD9, \h59, \hB9, \hBE, \h19, \hF9, \h99,
      \h9F, \hDB, \hFB, \hBB, \hBF, \h3B, \h7B, \h1B, \h5B, \h9E, \h9B }

IndirectXOps ==
    { \h61, \h21, \hC1, \h41, \hA1, \h01, \hE1, \h81,
      \h83, \hC3, \hE3, \hA3, \h23, \h63, \h03, \h43 }

IndirectYOps ==
    { \h71, \h31, \hD1, \h51, \hB1, \h11, \hF1, \h91,
      \h93, \hD3, \hF3, \hB3, \h33, \h73, \h13, \h53 }

BranchOps == { \h90, \hB0, \hD0, \hF0, \h10, \h30, \h50, \h70 }

\* JMP absolute, JMP indirect, JSR: three bytes, operand read by the handler
JumpOps == { \h4C, \h6C, \h20 }

\* an opcode table that gives the zero page,Y opcodes no addressing mode: not the
\* code's, and C21_DispatchTotal tells the two apart
OpModeNoZeroPageY(opcode) ==
    CASE opcode \in ImmediateOps -> "Immediate"
      [] opcode \in ZeroPageOps -> "ZeroPage"
      [] opcode \in ZeroPageXOps -> "ZeroPage_X"
      [] opcode \in AbsoluteOps -> "Absolute"
      [] opcode \in AbsoluteXOps -> "Absolute_X"
      [] opcode \in AbsoluteYOps -> "Absolute_Y"
      [] opcode \in IndirectXOps -> "Indirect_X"
      [] opcode \in IndirectYOps -> "Indirect_Y"
      [] OTHER -> "NoneAddressing"

\* OPCODE_MAP[&opcode].mode
OpMode(opcode) ==
    CASE opcode \in ImmediateOps -> "Immediate"
      [] opcode \in ZeroPageOps -> "ZeroPage"
      [] opcode \in ZeroPageXOps -> "ZeroPage_X"
      [] opcode \in ZeroPageYOps -> "ZeroPage_Y"
      [] opcode \in AbsoluteOps -> "Absolute"
      [] opcode \in AbsoluteXOps -> "Absolute_X"
      [] opcode \in AbsoluteYOps -> "Absolute_Y"
      [] opcode \in IndirectXOps -> "Indirect_X"
      [] opcode \in IndirectYOps -> "Indirect_Y"
      [] OTHER -> "NoneAddressing"

\* OPCODE_MAP[&opcode].length
OpLength(opcode) ==
    CASE OpMode(opcode) \in {"Immediate", "ZeroPage", "ZeroPage_X", "ZeroPage_Y",
                             "Indirect_X", "Indirect_Y"} -> 2
      [] OpMode(opcode) \in {"Absolute", "Absolute_X", "Absolute_Y"} -> 3
      [] opcode \in BranchOps -> 2
      [] opcode \in JumpOps -> 3
      [] OTHER -> 1

---------------------------------------------------------------------------
(* cpu.rs: run_with_callback *)

\* a + b on u8 with Rust's `+` (see add_u16)
add_u8(c, a, b) ==
    IF c.panic # NoPanic THEN Ret(c, 0)
    ELSE IF a + b > 255
         THEN IF c.overflow_checks
              THEN Ret(Panic(c, "attempt to add with overflow"), 0)
              ELSE Ret(c, (a + b) % 256)
         ELSE Ret(c, a + b)

\* the JMP absolute arm
jmp_absolute(c) ==
    With({
        SetPC(addr.c, addr.v)
      : addr \in { mem_read_u16(c, c.program_counter) } })

\* the JMP indirect arm
jmp_indirect(c) ==
    With({ With({ With({ With({ With({
        SetPC(indirect_ref.c, indirect_ref.v)
      : indirect_ref \in { IF BitAnd(addr.v, \hFF) = \hFF
                           THEN wrapped
                           ELSE mem_read_u16(addr.c, addr.v) } })
      : wrapped \in { Ret(high.c, BitOr(Shl16(high.v, 8), low.v)) } })
      : high \in { mem_read(low.c, BitAnd(addr.v, \hFF00)) } })
      : low \in { mem_read(addr.c, addr.v) } })
      : addr \in { mem_read_u16(c, c.program_counter) } })

\* the JSR arm
jsr(c) ==
    With({ With({ With({
        SetPC(target.c, target.v)
      : target \in { mem_read_u16(c1, c1.program_counter) } })
      : c1 \in { stack_push_u16(ret.c, (ret.v + 65535) % 65536) } })
      : ret \in { add_u16(c, c.program_counter, 2) } })

\* the PLA arm
pla(c) ==
    With({
        update_zero_and_negative_flags(SetA(value.c, value.v), value.v)
      : value \in { stack_pop(c) } })

\* a PLP that loads the popped byte as it is, Break included: not the code's, and
\* C18_PhpPlp tells the two apart
plp_keeps_break(c) ==
    With({
        SetStatus(value.c, insert(value.v, UNUSED))
      : value \in { stack_pop(c) } })

\* the PLP arm
plp(c) ==
    With({
        SetStatus(value.c, insert(remove(value.v, BREAK), UNUSED))
      : value \in { stack_pop(c) } })

\* an RTI that takes the popped byte as the flags, Break and Unused as they were
\* pushed: not the code's, and C32_UnusedOnBreakOff tells the two apart
rti_keeps_pushed_flags(c) ==
    With({ With({
        SetPC(pc.c, pc.v)
      : pc \in { stack_pop_u16(SetStatus(value.c, value.v)) } })
      : value \in { stack_pop(c) } })

\* the RTI arm
rti(c) ==
    With({ With({
        SetPC(pc.c, pc.v)
      : pc \in { stack_pop_u16(c1) } })
      : c1 \in { plp(c) } })

\* the RTS arm
rts(c) ==
    With({ With({
        SetPC(nxt.c, nxt.v)
      : nxt \in { add_u16(pc.c, pc.v, 1) } })
      : pc \in { stack_pop_u16(c) } })

\* the STA, STX, STY and AAX (SAX) arms: the byte is written at the operand address
store(c, mode, data) ==
    With({
        mem_write(addr.c, addr.v, data)
      : addr \in { get_operand_address(c, mode) } })

\* the ANC arm
anc(c, mode) ==
    With({
        IF contains(c1.status, NEGATIVE) THEN set_flag(c1, CARRY) ELSE clear_flag(c1, CARRY)
      : c1 \in { and(c, mode) } })

\* the ARR arm
arr(c, mode) ==
    With({ With({ With({ With({ With({ With({
        update_zero_and_negative_flags(c3, result)
      : c3 \in { IF BitXor(bit_5, bit_6) = 1 THEN set_flag(c2, OVERFLOW) ELSE clear_flag(c2, OVERFLOW) } })
      : c2 \in { IF bit_6 = 1 THEN set_flag(c1, CARRY) ELSE clear_flag(c1, CARRY) } })
      : bit_6 \in { BitAnd(Shr8(result, 6), 1) } })
      : bit_5 \in { BitAnd(Shr8(result, 5), 1) } })
      : result \in { c1.register_a } })
      : c1 \in { ror_acc(and(c, mode)) } })

\* the ATX (LXA) arm
atx(c, mode) ==
    With({
        update_zero_and_negative_flags(SetX(c1, c1.register_a), c1.register_a)
      : c1 \in { lda(c, mode) } })

\* the AXA (SHA) arm
axa(c, mode) ==
    With({ With({
        mem_write(addr.c, addr.v, result)
      : result \in { BitAnd(BitAnd(c.register_x, c.register_a), AsU8(Shr16(addr.v, 8))) } })
      : addr \in { get_operand_address(c, mode) } })

\* the AXS (SBX) arm
axs(c, mode) ==
    With({ With({ With({ With({
        update_carry_flag(SetX(c1, result), result)
      : c1 \in { IF o.v <= x_and_a THEN set_flag(o.c, CARRY) ELSE o.c } })
      : result \in { wrapping_sub_u8(x_and_a, o.v) } })
      : x_and_a \in { BitAnd(c.register_x, c.register_a) } })
      : o \in { Operand(c, mode) } })

\* the DCP arm
dcp(c, mode) ==
    With({ With({ With({ With({
        update_zero_and_negative_flags(c2, wrapping_sub_u8(c.register_a, result))
      : c2 \in { IF result <= c.register_a THEN set_flag(c1, CARRY) ELSE c1 } })
      : c1 \in { mem_write(o.c, o.addr, result) } })
      : result \in { wrapping_sub_u8(o.v, 1) } })
      : o \in { Operand(c, mode) } })

\* the DOP and TOP arms: the operand is read and dropped
nop_read(c, mode) == Operand(c, mode).c

\* the ISC arm
isc(c, mode) ==
    With({
        add_to_register_a(data.c, NegSubOne(data.v))
      : data \in { inc(c, mode) } })

\* the LAR (LAS) arm
lar(c, mode) ==
    With({ With({ With({
        update_zero_and_negative_flags(c1, mem_and_stk_ptr)
      : c1 \in { SetSP(SetX(SetA(o.c, mem_and_stk_ptr), mem_and_stk_ptr), mem_and_stk_ptr) } })
      : mem_and_stk_ptr \in { BitAnd(o.v, c.stack_ptr) } })
      : o \in { Operand(c, mode) } })

\* the LAX arm
lax(c, mode) ==
    With({
        update_zero_and_negative_flags(SetX(SetA(o.c, o.v), o.v), o.v)
      : o \in { Operand(c, mode) } })

\* the RLA arm
rla(c, mode) ==
    With({ With({
        update_zero_and_negative_flags(SetA(data.c, a), a)
      : a \in { BitAnd(data.c.register_a, data.v) } })
      : data \in { rol(c, mode) } })

\* an RRA that adds without the carry its rotate produced: not the code's, and
\* C30_CombinedReadModifyWrite tells the two apart
rra_without_carry(c, mode) ==
    With({
        add_to_register_a(clear_flag(data.c, CARRY), data.v)
      : data \in { ror(c, mode) } })

\* the RRA arm
rra(c, mode) ==
    With({
        add_to_register_a(data.c, data.v)
      : data \in { ror(c, mode) } })

\* the SLO arm
slo(c, mode) ==
    With({ With({
        update_zero_and_negative_flags(SetA(data.c, a), a)
      : a \in { BitOr(data.c.register_a, data.v) } })
      : data \in { asl(c, mode) } })

\* the SRE arm
sre(c, mode) ==
    With({ With({
        update_zero_and_negative_flags(SetA(data.c, a), a)
      : a \in { BitXor(data.c.register_a, data.v) } })
      : data \in { lsr(c, mode) } })

\* `self.mem_read_u16(self.program_counter) + index as u16` and
\* `(mem_addr >> 8) as u8 + 1` of the SXA, SYA and XAS arms
HighPlusOne(c, index) ==
    With({ With({ With({
        [c |-> high.c, v |-> high.v, addr |-> mem_addr.v]
      : high \in { add_u8(mem_addr.c, AsU8(Shr16(mem_addr.v, 8)), 1) } })
      : mem_addr \in { add_u16(base.c, base.v, index) } })
      : base \in { mem_read_u16(c, c.program_counter) } })

\* the SXA (SHX) arm
sxa(c) ==
    With({
        mem_write(h.c, h.addr, BitAnd(BitAnd(c.register_a, c.register_x), h.v))
      : h \in { HighPlusOne(c, c.register_y) } })

\* the SYA (SHY) arm
sya(c) ==
    With({
        mem_write(h.c, h.addr, BitAnd(c.register_y, h.v))
      : h \in { HighPlusOne(c, c.register_x) } })

\* the XAA (ANE) arm
xaa(c, mode) ==
    With({
        and(c1, mode)
      : c1 \in { update_zero_and_negative_flags(SetA(c, c.register_x), c.register_x) } })

\* the XAS (SHS) arm
xas(c) ==
    With({ With({
        mem_write(h.c, h.addr, BitAnd(h.v, c1.stack_ptr))
      : h \in { HighPlusOne(c1, c1.register_y) } })
      : c1 \in { SetSP(c, BitAnd(c.register_a, c.register_x)) } })

\* the KIL (JAM) arm: "do nothing"
kil(c) == c

KilOps == { \h02, \h12, \h22, \h32, \h42, \h52, \h62, \h72, \h92, \hB2, \hD2, \hF2 }

\* `match opcode { ... }` without its BRK arm: the machine after the arm of opcode
Execute(c, opcode) ==
    With({
        CASE opcode \in {\h69, \h65, \h75, \h6D, \h7D, \h79, \h61, \h71} -> adc(c, mode)
          [] opcode \in {\h29, \h25, \h35, \h2D, \h3D, \h39, \h21, \h31} -> and(c, mode)
          [] opcode \in {\h0A, \h06, \h16, \h1E, \h0E} -> asl(c, mode).c
          [] opcode = \h90 -> branch(c, ~contains(c.status, CARRY))
          [] opcode = \hB0 -> branch(c, contains(c.status, CARRY))
          [] opcode = \h10 -> branch(c, ~contains(c.status, NEGATIVE))
          [] opcode = \h30 -> branch(c, contains(c.status, NEGATIVE))
          [] opcode = \h50 -> branch(c, ~contains(c.status, OVERFLOW))
          [] opcode = \h70 -> branch(c, contains(c.status, OVERFLOW))
          [] opcode = \hD0 -> branch(c, ~contains(c.status, ZERO))
          [] opcode = \hF0 -> branch(c, contains(c.status, ZERO))
          [] opcode \in {\h24, \h2C} -> bit(c, mode)
          [] opcode = \h18 -> clear_flag(c, CARRY)
          [] opcode = \hD8 -> clear_flag(c, DECIMAL_MODE)
          [] opcode = \h58 -> clear_flag(c, INTERRUPT_DISABLE)
          [] opcode = \hB8 -> clear_flag(c, OVERFLOW)
          [] opcode \in {\hC9, \hC5, \hD5, \hCD, \hDD, \hD9, \hC1, \hD1} ->
                compare(c, mode, c.register_a)
          [] opcode \in {\hE0, \hE4, \hEC} -> compare(c, mode, c.register_x)
          [] opcode \in {\hC0, \hC4, \hCC} -> compare(c, mode, c.register_y)
          [] opcode \in {\hC6, \hD6, \hCE, \hDE} -> dec(c, mode)
          [] opcode = \hCA -> dex(c)
          [] opcode = \h88 -> dey(c)
          [] opcode \in {\h49, \h45, \h55, \h4D, \h5D, \h59, \h41, \h51} -> eor(c, mode)
          [] opcode \in {\hE6, \hF6, \hEE, \hFE} -> inc(c, mode).c
          [] opcode = \hE8 -> inx(c)
          [] opcode = \hC8 -> iny(c)
          [] opcode = \h4C -> jmp_absolute(c)
          [] opcode = \h6C -> jmp_indirect(c)
          [] opcode = \h20 -> jsr(c)
          [] opcode \in {\hA9, \hA5, \hB5, \hAD, \hBD, \hB9, \hA1, \hB1} -> lda(c, mode)
          [] opcode \in {\hA2, \hA6, \hB6, \hAE, \hBE} -> ldx(c, mode)
          [] opcode \in {\hA0, \hA4, \hB4, \hAC, \hBC} -> ldy(c, mode)
          [] opcode = \h4A -> lsr_acc(c)
          [] opcode \in {\h46, \h56, \h4E, \h5E} -> lsr(c, mode).c
          [] opcode = \hEA -> c
          [] opcode \in {\h09, \h05, \h15, \h0D, \h1D, \h19, \h01, \h11} -> ora(c, mode)
          [] opcode = \h48 -> stack_push(c, c.register_a)
          [] opcode = \h08 -> php(c)
          [] opcode = \h68 -> pla(c)
          [] opcode = \h28 -> plp(c)
          [] opcode = \h2A -> rol_acc(c)
          [] opcode \in {\h26, \h36, \h2E, \h3E} -> rol(c, mode).c
          [] opcode = \h6A -> ror_acc(c)
          [] opcode \in {\h66, \h76, \h6E, \h7E} -> ror(c, mode).c
          [] opcode = \h40 -> rti(c)
          [] opcode = \h60 -> rts(c)
          [] opcode \in {\hE9, \hE5, \hF5, \hED, \hFD, \hF9, \hE1, \hF1} -> sbc(c, mode)
          [] opcode = \h38 -> set_flag(c, CARRY)
          [] opcode = \hF8 -> set_flag(c, DECIMAL_MODE)
          [] opcode = \h78 -> set_flag(c, INTERRUPT_DISABLE)
          [] opcode \in {\h85, \h95, \h8D, \h9D, \h99, \h81, \h91} -> store(c, mode, c.register_a)
          [] opcode \in {\h86, \h96, \h8E} -> store(c, mode, c.register_x)
          [] opcode \in {\h84, \h94, \h8C} -> store(c, mode, c.register_y)
          [] opcode = \hAA ->
                update_zero_and_negative_flags(SetX(c, c.register_a), c.register_a)
          [] opcode = \hA8 ->
                update_zero_and_negative_flags(SetY(c, c.register_a), c.register_a)
          [] opcode = \hBA ->
                update_zero_and_negative_flags(SetX(c, c.stack_ptr), c.stack_ptr)
          [] opcode = \h8A ->
                update_zero_and_negative_flags(SetA(c, c.register_x), c.register_x)
          [] opcode = \h9A -> SetSP(c, c.register_x)
          [] opcode = \h98 ->
                update_zero_and_negative_flags(SetA(c, c.register_y), c.register_y)
          [] opcode \in {\h0B, \h2B} -> anc(c, mode)
          [] opcode \in {\h87, \h97, \h83, \h8F} ->
                store(c, mode, BitAnd(c.register_x, c.register_a))
          [] opcode = \h6B -> arr(c, mode)
          [] opcode = \h4B -> lsr_acc(and(c, mode))
          [] opcode = \hAB -> atx(c, mode)
          [] opcode \in {\h9F, \h93} -> axa(c, mode)
          [] opcode = \hCB -> axs(c, mode)
          [] opcode \in {\hC7, \hD7, \hCF, \hDF, \hDB, \hC3, \hD3} -> dcp(c, mode)
          [] opcode \in {\h04, \h14, \h34, \h44, \h54, \h64, \h74, \h80, \h82, \h89,
                         \hC2, \hD4, \hE2, \hF4} -> nop_read(c, mode)
          [] opcode \in {\hE7, \hF7, \hEF, \hFF, \hFB, \hE3, \hF3} -> isc(c, mode)
          [] opcode \in KilOps -> kil(c)
          [] opcode = \hBB -> lar(c, mode)
          [] opcode \in {\hA7, \hB7, \hAF, \hBF, \hA3, \hB3} -> lax(c, mode)
          [] opcode \in {\h1A, \h3A, \h5A, \h7A, \hDA, \hFA} -> c
          [] opcode \in {\h27, \h37, \h2F, \h3F, \h3B, \h23, \h33} -> rla(c, mode)
          [] opcode \in {\h67, \h77, \h6F, \h7F, \h7B, \h63, \h73} -> rra(c, mode)
          [] opcode = \hEB -> sbc(c, mode)
          [] opcode \in {\h07, \h17, \h0F, \h1F, \h1B, \h03, \h13} -> slo(c, mode)
          [] opcode \in {\h47, \h57, \h4F, \h5F, \h5B, \h43, \h53} -> sre(c, mode)
          [] opcode = \h9E -> sxa(c)
          [] opcode = \h9C -> sya(c)
          [] opcode \in {\h0C, \h1C, \h3C, \h5C, \h7C, \hDC, \hFC} -> nop_read(c, mode)
          [] opcode = \h8B -> xaa(c, mode)
          [] opcode = \h9B -> xas(c)
      : mode \in { OpMode(opcode) } })

\* the BRK arm: `return`
BRK_OP == 0

\* `callback(self)` for the closure run() passes, |_| {}
callback(c) == c

\* `if program_counter_state == self.program_counter { self.program_counter += length - 1 }`
AdvancePC(c, opcode, program_counter_state) ==
    IF c.panic = NoPanic /\ program_counter_state = c.program_counter
    THEN With({
             SetPC(nxt.c, nxt.v)
           : nxt \in { add_u16(c, c.program_counter, OpLength(opcode) - 1) } })
    ELSE c

\* a turn of the loop that calls the observer straight after the match, before the
\* program counter is advanced: not the code's, and C20_ObservedOnceUnlessBrk tells
\* the two apart
RunIterationObservedEarly(c) ==
    With({ With({ With({ With({
        IF c1.panic # NoPanic
        THEN [c |-> c1, opcode |-> opcode, returned |-> FALSE, called |-> FALSE,
              seen |-> << >>]
        ELSE IF opcode = BRK_OP
        THEN [c |-> c1, opcode |-> opcode, returned |-> TRUE, called |-> FALSE,
              seen |-> << >>]
        ELSE With({ With({
                 IF c3.panic # NoPanic
                 THEN [c |-> c3, opcode |-> opcode, returned |-> FALSE, called |-> FALSE,
                       seen |-> << >>]
                 ELSE [c |-> c3, opcode |-> opcode, returned |-> FALSE,
                       called |-> TRUE, seen |-> << callback(c2) >>]
               : c3 \in { AdvancePC(c2, opcode, c1.program_counter) } })
               : c2 \in { Execute(c1, opcode) } })
      : c1 \in { SetPC(nxt.c, nxt.v) } })
      : nxt \in { add_u16(fetch.c, c.program_counter, 1) } })
      : opcode \in { fetch.v } })
      : fetch \in { mem_read(c, c.program_counter) } })

\* one turn of the `loop` of run_with_callback: the machine after it, the opcode it
\* fetched, whether it returned from run_with_callback, whether it called the observer
\* and the machines the observer was handed, one for each call, in order
RunIteration(c) ==
    With({ With({ With({ With({
        IF c1.panic # NoPanic
        THEN [c |-> c1, opcode |-> opcode, returned |-> FALSE, called |-> FALSE,
              seen |-> << >>]
        ELSE IF opcode = BRK_OP
        THEN [c |-> c1, opcode |-> opcode, returned |-> TRUE, called |-> FALSE,
              seen |-> << >>]
        ELSE With({ With({
                 IF c3.panic # NoPanic
                 THEN [c |-> c3, opcode |-> opcode, returned |-> FALSE, called |-> FALSE,
                       seen |-> << >>]
                 ELSE [c |-> callback(c3), opcode |-> opcode, returned |-> FALSE,
                       called |-> TRUE, seen |-> << c3 >>]
               : c3 \in { AdvancePC(c2, opcode, c1.program_counter) } })
               : c2 \in { Execute(c1, opcode) } })
      : c1 \in { SetPC(nxt.c, nxt.v) } })
      : nxt \in { add_u16(fetch.c, c.program_counter, 1) } })
      : opcode \in { fetch.v } })
      : fetch \in { mem_read(c, c.program_counter) } })

---------------------------------------------------------------------------
(* ppu.rs *)

\* no PPU has been constructed: Bus does not own one
NoPpu == "none"

\* a - b on u16 with Rust's `-` (see add_u16)
sub_u16(p, a, b) ==
    IF p.panic # NoPanic THEN Ret(p, 0)
    ELSE IF a < b
         THEN IF p.overflow_checks
              THEN Ret(Panic(p, "attempt to subtract with overflow"), 0)
              ELSE Ret(p, (a - b) + 65536)
         ELSE Ret(p, a - b)

\* AddrRegister::new: value.0 is the high byte, value.1 the low byte
AddrRegister_new == [value |-> (0 :> 0) @@ (1 :> 0), hi_ptr |-> TRUE]

\* AddrRegister::get
AddrRegister_get(r) == BitOr(Shl16(r.value[0], 8), r.value[1])

\* AddrRegister::set
AddrRegister_set(r, data) ==
    [r EXCEPT !.value = (0 :> AsU8(Shr16(data, 8))) @@ (1 :> AsU8(BitAnd(data, \hFF)))]

\* `if self.get() > 0x3fff { self.set(self.get() & 0b11111111111111) }`
MirrorDown(r) ==
    IF AddrRegister_get(r) > \h3FFF
    THEN AddrRegister_set(r, BitAnd(AddrRegister_get(r), \h3FFF))
    ELSE r

\* an update that stores the low byte first: not the code's, and
\* C24_AddrRegisterWrites tells the two apart
AddrRegister_update_low_first(r, data) ==
    With({
        [MirrorDown(r1) EXCEPT !.hi_ptr = ~r.hi_ptr]
      : r1 \in { IF r.hi_ptr
                 THEN [r EXCEPT !.value[1] = data]
                 ELSE [r EXCEPT !.value[0] = data] } })

\* AddrRegister::update
AddrRegister_update(r, data) ==
    With({
        [MirrorDown(r1) EXCEPT !.hi_ptr = ~r.hi_ptr]
      : r1 \in { IF r.hi_ptr
                 THEN [r EXCEPT !.value[0] = data]
                 ELSE [r EXCEPT !.value[1] = data] } })

\* an increment that drops the carry into the high byte: not the code's, and
\* C25_AddrIncrement tells the two apart
AddrRegister_increment_no_carry(r, step) ==
    MirrorDown([r EXCEPT !.value[1] = wrapping_add_u8(r.value[1], step)])

\* AddrRegister::increment
AddrRegister_increment(r, step) ==
    With({ With({
        MirrorDown(IF lo > r1.value[1]
                   THEN [r1 EXCEPT !.value[0] = wrapping_add_u8(r1.value[0], 1)]
                   ELSE r1)
      : r1 \in { [r EXCEPT !.value[1] = wrapping_add_u8(r.value[1], step)] } })
      : lo \in { r.value[1] } })

\* AddrRegister::reset_latch
AddrRegister_reset_latch(r) == [r EXCEPT !.hi_ptr = TRUE]

\* ControlRegister::VRAM_ADD_INCREMENT, 1 << 2
VRAM_ADD_INCREMENT == 4

\* ControlRegister::new
ControlRegister_new == \h00

\* ControlRegister::vram_addr_increment
vram_addr_increment(ctrl) == IF ~contains(ctrl, VRAM_ADD_INCREMENT) THEN 1 ELSE 32

\* ControlRegister::update
ControlRegister_update(ctrl, data) == data

\* the lengths of PPU.palette_table and PPU.vram
PALETTE_LEN == 32
PPU_VRAM_LEN == 2048

\* PPU::new, in a build with or without overflow checks; chr_rom is a Vec of chr_len bytes
PpuNew(chr_len, chr_rom, mirroring, checks) ==
    [ chr_len |-> chr_len,
      chr_rom |-> chr_rom,
      palette_table |-> EmptyArr,
      vram |-> EmptyArr,
      oam_data |-> EmptyArr,
      mirroring |-> mirroring,
      addr |-> AddrRegister_new,
      ctrl |-> ControlRegister_new,
      internal_data_buf |-> 0,
      panic |-> NoPanic,
      overflow_checks |-> checks ]

\* PPU::write_to_ppu_addr
write_to_ppu_addr(p, value) == [p EXCEPT !.addr = AddrRegister_update(p.addr, value)]

\* PPU::write_to_ctrl
write_to_ctrl(p, value) == [p EXCEPT !.ctrl = ControlRegister_update(p.ctrl, value)]

\* PPU::increment_vram_addr
increment_vram_addr(p) ==
    IF p.panic # NoPanic THEN p
    ELSE [p EXCEPT !.addr = AddrRegister_increment(p.addr, vram_addr_increment(p.ctrl))]

\* the match of PPU::mirror_vram_addr
MirrorIndex(mirroring, name_table, vram_index) ==
    CASE mirroring = "VERTICAL" /\ name_table \in {2, 3} -> vram_index - \h0800
      [] mirroring = "HORIZONTAL" /\ name_table = 2 -> vram_index - \h0400
      [] mirroring = "HORIZONTAL" /\ name_table = 1 -> vram_index - \h0400
      [] mirroring = "HORIZONTAL" /\ name_table = 3 -> vram_index - \h0800
      [] OTHER -> vram_index

\* PPU::mirror_vram_addr
mirror_vram_addr(p, addr) ==
    With({
        Ret(vram_index.c,
            MirrorIndex(p.mirroring, vram_index.v \div \h0400, vram_index.v))
      : vram_index \in { sub_u16(p, BitAnd(addr, \h2FFF), \h2000) } })

\* arr[i] = value on an array of len elements of the PPU
PpuStore(p, field, len, i, value) ==
    IF p.panic # NoPanic THEN p
    ELSE IF i >= len THEN Panic(p, "index out of bounds")
    ELSE [p EXCEPT ![field] = Store(p[field], i, value)]

\* arr[i] on an array of len elements of the PPU
PpuLoad(p, field, len, i) ==
    IF p.panic # NoPanic THEN Ret(p, 0)
    ELSE IF i >= len THEN Ret(Panic(p, "index out of bounds"), 0)
    ELSE Ret(p, Elem(p[field], i))

\* PPU::write_to_data
write_to_data(p, value) ==
    With({
        increment_vram_addr(
            CASE addr <= \h1FFF -> Panic(p, "attempt to write to chr rom space")
              [] addr \in \h2000 .. \h2FFF ->
                    With({
                        PpuStore(i.c, "vram", PPU_VRAM_LEN, i.v, value)
                      : i \in { mirror_vram_addr(p, addr) } })
              [] addr \in \h3000 .. \h3EFF -> Panic(p, "addr shouldn't be used")
              [] addr \in { \h3F10, \h3F14, \h3F18, \h3F1C } ->
                    PpuStore(p, "palette_table", PALETTE_LEN, (addr - \h10) - \h3F00, value)
              [] addr \in \h3F00 .. \h3FFF ->
                    PpuStore(p, "palette_table", PALETTE_LEN, addr - \h3F00, value)
              [] OTHER -> Panic(p, "unexpected access to mirrored space"))
      : addr \in { AddrRegister_get(p.addr) } })

\* `let result = self.internal_data_buf; self.internal_data_buf = <loaded>; result`
Buffered(p, loaded) ==
    IF loaded.c.panic # NoPanic THEN Ret(loaded.c, 0)
    ELSE Ret([loaded.c EXCEPT !.internal_data_buf = loaded.v], p.internal_data_buf)

\* PPU::read_data
read_data(p) ==
    With({ With({
        CASE addr <= \h1FFF -> Buffered(p1, PpuLoad(p1, "chr_rom", p1.chr_len, addr))
          [] addr \in \h2000 .. \h2FFF ->
                With({
                    Buffered(p1, PpuLoad(i.c, "vram", PPU_VRAM_LEN, i.v))
                  : i \in { mirror_vram_addr(p1, addr) } })
          [] addr \in \h3000 .. \h3EFF ->
                Ret(Panic(p1, "addr space 0x3000..0x3eff is not expected to be used"), 0)
          [] addr \in \h3F00 .. \h3FFF ->
                PpuLoad(p1, "palette_table", PALETTE_LEN, addr - \h3F00)
          [] OTHER -> Ret(Panic(p1, "unexpected access to mirrored space"), 0)
      : p1 \in { increment_vram_addr(p) } })
      : addr \in { AddrRegister_get(p.addr) } })

---------------------------------------------------------------------------
(* The cartridges and the host *)

\* a Rom with a program ROM of len bytes holding the given non-zero bytes
Rom(len, bytes) == [len |-> len, prg_rom |-> bytes]

\* a 16 KiB cartridge: code at 0x8000 (mirrored at 0xC000), reset vector 0x8000
Cart16 ==
    Rom(\h4000, (\h0000 :> \hA9) @@ (\h0001 :> \h05) @@ (\h0002 :> \hE8)
                @@ (\h3FFD :> \h80))

\* a 32 KiB cartridge: code at 0xC000, reset vector 0xC000, a marker byte at 0x8000
Cart32 ==
    Rom(\h8000, (\h0000 :> \h77) @@ (\h4000 :> \hE8) @@ (\h4001 :> \hC8)
                @@ (\h7FFD :> \hC0))

\* a 32 KiB cartridge whose reset vector points into RAM, at 0x0600
CartRam ==
    Rom(\h8000, (\h7FFD :> \h06) @@ (\h7FFF :> \hFF))

Carts == {Cart16, Cart32, CartRam}

NoOp == [op |-> "new", addr |-> 0, data |-> 0, ret |-> 0]

\* let bus = Bus::new(rom); let cpu = CPU::new(bus);
InitHost ==
    /\ cart \in Carts
    /\ \E checks \in BOOLEAN : cpu = CpuNew(cart, checks)
    /\ phase = "host"
    /\ last = NoOp
    /\ prev = cpu
    /\ nops = 0
    /\ shadow = [base |-> cpu.stack_ptr, bytes |-> << >>, peak |-> 0]
    /\ given = cpu
    /\ ppu = NoPpu

---------------------------------------------------------------------------
(* SpecBus: the host reads and writes through the CPU's Mem interface *)

\* how many bus operations the host performs
MaxBusOps == 2

\* the addresses the host uses: both ends of every range of the bus's dispatch
BusAddrs ==
    { \h0000, \h07FF, \h0800, \h1FFE, \h1FFF, \h2000, \h3FFF,
      \h4000, \h7FFF, \h8000, \hBFFF, \hC000, \hFFFC, \hFFFF }

BusBytes == { \h00, \h5A, \hFF }

BusWords == { \h0000, \h12FF, \hFF34 }

HostCan == phase = "host" /\ cpu.panic = NoPanic /\ nops < MaxBusOps

\* cpu.mem_read(addr)
MemRead(addr) ==
    /\ HostCan
    /\ LET r == mem_read(cpu, addr)
       IN  /\ cpu' = r.c
           /\ last' = [op |-> "mem_read", addr |-> addr, data |-> 0, ret |-> r.v]
    /\ prev' = cpu
    /\ nops' = nops + 1
    /\ UNCHANGED <<cart, phase, shadow, given, ppu>>

\* cpu.mem_write(addr, data)
MemWrite(addr, data) ==
    /\ HostCan
    /\ cpu' = mem_write(cpu, addr, data)
    /\ last' = [op |-> "mem_write", addr |-> addr, data |-> data, ret |-> 0]
    /\ prev' = cpu
    /\ nops' = nops + 1
    /\ UNCHANGED <<cart, phase, shadow, given, ppu>>

\* cpu.mem_read_u16(pos)
MemReadU16(pos) ==
    /\ HostCan
    /\ LET r == mem_read_u16(cpu, pos)
       IN  /\ cpu' = r.c
           /\ last' = [op |-> "mem_read_u16", addr |-> pos, data |-> 0, ret |-> r.v]
    /\ prev' = cpu
    /\ nops' = nops + 1
    /\ UNCHANGED <<cart, phase, shadow, given, ppu>>

\* cpu.mem_write_u16(pos, data)
MemWriteU16(pos, data) ==
    /\ HostCan
    /\ cpu' = mem_write_u16(cpu, pos, data)
    /\ last' = [op |-> "mem_write_u16", addr |-> pos, data |-> data, ret |-> 0]
    /\ prev' = cpu
    /\ nops' = nops + 1
    /\ UNCHANGED <<cart, phase, shadow, given, ppu>>

NextBus ==
    \/ \E addr \in BusAddrs : MemRead(addr)
    \/ \E addr \in BusAddrs, data \in BusBytes : MemWrite(addr, data)
    \/ \E pos \in BusAddrs : MemReadU16(pos)
    \/ \E pos \in BusAddrs, data \in BusWords : MemWriteU16(pos, data)

SpecBus == InitHost /\ [][NextBus]_vars

---------------------------------------------------------------------------
(* Claims about the bus, checked under SpecBus *)

\* the byte a read at a returns from the bus of c, and whether that read panics
BusByte(c, a) == mem_read([c EXCEPT !.panic = NoPanic], a).v
BusReadPanics(c, a) == mem_read([c EXCEPT !.panic = NoPanic], a).c.panic # NoPanic

RamAddrs == \h0000 .. \h1FFF
PpuAddrs == \h2000 .. \h3FFF
RomAddrs == \h8000 .. \hFFFF

\* the four addresses at which the bus shows RAM cell i
Mirrors(i) == { i, i + \h0800, i + \h1000, i + \h1800 }

\* the RAM addresses the claims read: the mirrors of the first and last cells, of the
\* cells either side of bit 10 of the index, and of every cell that is not zero
RamProbe(c) ==
    UNION { Mirrors(i) : i \in {\h000, \h001, \h3FF, \h400, \h7FE, \h7FF}
                               \cup DOMAIN c.cpu_vram }

\* the ROM addresses the claims read: both ends of both 16 KiB halves, the vectors,
\* and every address that shows a byte of the cartridge that is not zero
RomProbe(rom) ==
    { \h8000, \h8001, \hBFFF, \hC000, \hC001, \hFFFC, \hFFFD, \hFFFF }
        \cup { \h8000 + i : i \in DOMAIN rom.prg_rom }
        \cup { \hC000 + i : i \in { j \in DOMAIN rom.prg_rom : j < \h4000 } }

\* C5: a bus read or write at an address in 0x2000..=0x3FFF does not fail: the read
\* returns 0, the write is accepted, and the CPU RAM is left as it was.
C5_PpuAccessDoesNotFail ==
    (last.op \in {"mem_read", "mem_write"} /\ last.addr \in PpuAddrs) =>
        /\ cpu.panic = NoPanic
        /\ last.ret = 0
        /\ cpu.cpu_vram = prev.cpu_vram

\* C6: a bus write at an address >= 0x8000 panics whatever the data byte, and after
\* any sequence of bus operations the program ROM is the cartridge's and the
\* addresses in 0x8000..=0xFFFF read as they did when the bus was constructed.
C6_RomReadOnly ==
    /\ (last.op = "mem_write" /\ last.addr >= \h8000) =>
            cpu.panic = "Attempt to write to Cartridge ROM space"
    /\ cpu.rom = cart
    /\ \A a \in RomProbe(cart) :
            BusByte(cpu, a) = BusByte(CpuNew(cart, cpu.overflow_checks), a)

C6_Witness ==
    /\ last.op = "mem_write" /\ last.addr = \hFFFC /\ last.data = \h5A
    /\ cpu.panic # NoPanic
    /\ BusByte(cpu, \hFFFD) = \hC0

\* C7: RAM reads as zero at construction; every address in 0x0000..=0x1FFF reads as
\* its mirror in 0x0000..=0x07FF does; and a write at a is read back at the four
\* mirrors of a and changes no other RAM cell.
C7_RamMirrored ==
    /\ \A a \in RamProbe(cpu) : BusByte(cpu, a) = BusByte(cpu, a % 2048)
    /\ last.op = "new" => \A a \in RamProbe(cpu) : BusByte(cpu, a) = 0
    /\ (last.op = "mem_write" /\ last.addr \in RamAddrs) =>
            /\ \A a \in Mirrors(last.addr % 2048) : BusByte(cpu, a) = last.data
            /\ \A a \in (RamProbe(cpu) \cup RamProbe(prev)) \ Mirrors(last.addr % 2048) :
                    BusByte(cpu, a) = BusByte(prev, a)
            /\ \A i \in (DOMAIN cpu.cpu_vram \cup DOMAIN prev.cpu_vram) \ {last.addr % 2048} :
                    Elem(cpu.cpu_vram, i) = Elem(prev.cpu_vram, i)

C7_Witness ==
    /\ last.op = "mem_write" /\ last.addr = \h1FFF /\ last.data = \h5A
    /\ BusByte(cpu, \h07FF) = \h5A /\ BusByte(cpu, \h0FFF) = \h5A
    /\ BusByte(cpu, \h17FF) = \h5A /\ BusByte(cpu, \h1000) = \hFF

\* C8 over all of RAM: for every p in 0x0000..=0x1FFF and every 16-bit v, mem_write_u16(p, v)
\* followed by mem_read_u16(p) returns v.
C8_RoundTripAllRam ==
    (last.op = "mem_write_u16" /\ last.addr \in RamAddrs) =>
        /\ cpu.panic = NoPanic
        /\ mem_read_u16(cpu, last.addr).c.panic = NoPanic
        /\ mem_read_u16(cpu, last.addr).v = last.data

\* C8 for the words that lie in RAM: for every p in 0x0000..=0x1FFE (both bytes of the word in RAM) and
\* every 16-bit v, mem_write_u16(p, v) followed by mem_read_u16(p) returns v, the low
\* byte stored at p and the high byte at p + 1.
C8_RoundTripInRam ==
    (last.op = "mem_write_u16" /\ last.addr \in \h0000 .. \h1FFE) =>
        /\ cpu.panic = NoPanic
        /\ mem_read_u16(cpu, last.addr).c.panic = NoPanic
        /\ mem_read_u16(cpu, last.addr).v = last.data
        /\ BusByte(cpu, last.addr) = last.data % 256
        /\ BusByte(cpu, last.addr + 1) = last.data \div 256

C8_Witness ==
    /\ last.op = "mem_write_u16" /\ last.addr = \h07FF /\ last.data = \h12FF
    /\ mem_read_u16(cpu, \h07FF).v = \h12FF
    /\ BusByte(cpu, \h0000) = \h12

---------------------------------------------------------------------------
(* The run loop as an action, and the host's calls *)

\* one turn of the loop of run_with_callback; BRK returns to the host
Step ==
    /\ phase = "run"
    /\ cpu.panic = NoPanic
    /\ \E r \in { RunIteration(cpu) } :
           /\ cpu' = r.c
           /\ phase' = IF r.returned THEN "returned" ELSE "run"
           /\ last' = [op |-> "step", addr |-> cpu.program_counter, data |-> r.opcode,
                       ret |-> IF r.called THEN 1 ELSE 0, seen |-> r.seen]
    /\ prev' = cpu
    /\ UNCHANGED <<cart, nops, shadow, given, ppu>>

\* how many calls the host makes (the turns of the run loop are not counted)
MaxHostOps == 3

\* the programs the host loads: those of the tests in cpu.rs, and one per feature
Programs ==
    { << \hA9, \h05, \h00 >>,                        \* LDA #$05; BRK
      << \hA9, \hC0, \hAA, \hE8, \h48, \h00 >>,      \* LDA #$C0; TAX; INX; PHA; BRK
      << \h02, \hE8, \h00 >>,                        \* KIL; INX; BRK
      << \h48, \h08, \h68, \h28, \h00 >>,            \* PHA; PHP; PLA; PLP; BRK
      << \h20, \h05, \h06, \hE8, \h00, \hC8, \h60 >>, \* JSR $0605; INX; BRK; INY; RTS
      << \h8D, \h00, \h80 >>,                        \* STA $8000
      << \hAD, \h02, \h20 >> }                       \* LDA $2002

HostIdle == phase \in {"host", "returned"} /\ cpu.panic = NoPanic /\ nops < MaxHostOps

\* cpu.load(program)
Load(program) ==
    /\ HostIdle
    /\ cpu' = load(cpu, program)
    /\ phase' = "host"
    /\ last' = [op |-> "load", addr |-> \h0600, data |-> Len(program), ret |-> 0]
    /\ prev' = cpu
    /\ nops' = nops + 1
    /\ UNCHANGED <<cart, shadow, given, ppu>>

\* cpu.reset()
Reset ==
    /\ HostIdle
    /\ cpu' = reset(cpu)
    /\ phase' = "host"
    /\ last' = [op |-> "reset", addr |-> 0, data |-> 0, ret |-> 0]
    /\ prev' = cpu
    /\ nops' = nops + 1
    /\ UNCHANGED <<cart, shadow, given, ppu>>

\* cpu.run(): the loop is entered at the current program counter
Run ==
    /\ HostIdle
    /\ cpu' = cpu
    /\ phase' = "run"
    /\ last' = [op |-> "run", addr |-> cpu.program_counter, data |-> 0, ret |-> 0]
    /\ prev' = cpu
    /\ nops' = nops + 1
    /\ UNCHANGED <<cart, shadow, given, ppu>>

\* a load_and_run that enters the loop at the reset vector's target instead of 0x0600:
\* not the code's, and C26_FiveOpsProgram tells the two apart
load_and_run_from_vector(c, program) == reset(load(c, program))

\* CPU::load_and_run up to its call of run(): load, reset, program_counter = 0x0600
load_and_run(c, program) == SetPC(reset(load(c, program)), \h0600)

\* cpu.load_and_run(program): the loop is entered at 0x0600
LoadAndRun(program) ==
    /\ HostIdle
    /\ cpu' = load_and_run(cpu, program)
    /\ phase' = "run"
    /\ last' = [op |-> "load_and_run", addr |-> \h0600, data |-> Len(program), ret |-> 0]
    /\ prev' = cpu
    /\ nops' = nops + 1
    /\ UNCHANGED <<cart, shadow, given, ppu>>

Init == InitHost

Next ==
    \/ \E program \in Programs : Load(program)
    \/ Reset
    \/ Run
    \/ \E program \in Programs : LoadAndRun(program)
    \/ Step

Spec == Init /\ [][Next]_vars

---------------------------------------------------------------------------
(* One instruction placed in RAM by the host, then the run loop *)

\* cpu.mem_write(base + i, bytes[i]) for each byte, as CPU::load does from 0x0600
RECURSIVE WriteAt(_, _, _, _)
WriteAt(c, base, bytes, i) ==
    IF i >= Len(bytes) THEN c
    ELSE WriteAt(mem_write(c, base + i, bytes[i + 1]), base, bytes, i + 1)

\* where the instruction is placed
InstrAddrs == { \h0010, \h0600 }

\* the flags before the instruction: the four tested by branches all clear, all set
InstrStatus == { \h24, \hE7 }

\* the stack pointer before the instruction
InstrSP == { \hFD, \h01 }

\* the 16-bit targets of jumps and returns
Targets == { \h0000, \h0001, \h0011, \h0012, \h0013, \h0601, \h0602, \h0603, \h1234,
             \h1FFF, \h7FFF, \h8000, \hC000, \hFFFE, \hFFFF }

\* where JMP indirect finds its vector; the second is the last byte of a page
Pointers == { \h0020, \h02FF, \h0700 }

Lo(w) == w % 256
Hi(w) == w \div 256

\* the machine with the instruction at `at`, the program counter on it
InstrCpu(checks, at, bytes, status, sp) ==
    [WriteAt(CpuNew(Cart32, checks), at, bytes, 0)
        EXCEPT !.program_counter = at, !.status = status, !.stack_ptr = sp]

InstrStart(c) ==
    /\ cart = Cart32
    /\ cpu = c
    /\ phase = "run"
    /\ last = NoOp
    /\ prev = cpu
    /\ nops = 0
    /\ shadow = [base |-> cpu.stack_ptr, bytes |-> << >>, peak |-> 0]
    /\ given = cpu
    /\ ppu = NoPpu

InitInstr ==
    \/ \E checks \in BOOLEAN, at \in InstrAddrs, status \in InstrStatus,
          opcode \in BranchOps, d \in Byte :
          InstrStart(InstrCpu(checks, at, << opcode, d >>, status, STACK_RESET))
    \/ \E checks \in BOOLEAN, at \in InstrAddrs, sp \in InstrSP,
          opcode \in { \h4C, \h20 }, t \in Targets :
          InstrStart(InstrCpu(checks, at, << opcode, Lo(t), Hi(t) >>, \h24, sp))
    \/ \E checks \in BOOLEAN, at \in InstrAddrs, p \in Pointers, t \in Targets :
          InstrStart(mem_write(
              mem_write(InstrCpu(checks, at, << \h6C, Lo(p), Hi(p) >>, \h24, STACK_RESET),
                        p, Lo(t)),
              IF Lo(p) = \hFF THEN p - \hFF ELSE p + 1, Hi(t)))
    \/ \E checks \in BOOLEAN, at \in InstrAddrs, sp \in InstrSP, t \in Targets :
          InstrStart(stack_push_u16(InstrCpu(checks, at, << \h60 >>, \h24, sp), t))
    \/ \E checks \in BOOLEAN, at \in InstrAddrs, sp \in InstrSP, t \in Targets,
          p \in { \h00, \hFF } :
          InstrStart(stack_push(stack_push_u16(InstrCpu(checks, at, << \h40 >>, \h24, sp), t), p))
    \/ \E checks \in BOOLEAN, at \in InstrAddrs, sp \in InstrSP, status \in InstrStatus :
          InstrStart(InstrCpu(checks, at, << \h00 >>, status, sp))

NextInstr == Step

SpecInstr == InitInstr /\ [][NextInstr]_vars

---------------------------------------------------------------------------
(* Control flow: branches, jumps, returns, BRK and KIL *)

\* the machine executed one instruction in the last turn of the loop, without a panic
Stepped == last.op = "step" /\ cpu.panic = NoPanic

\* the 16-bit little-endian word the bus shows at a and a + 1
BusWord(c, a) == BusByte(c, a) + 256 * BusByte(c, (a + 1) % 65536)

\* the condition of each branch instruction on the flags P
BranchTaken(opcode, p) ==
    CASE opcode = \h90 -> BitAnd(p, CARRY) = 0
      [] opcode = \hB0 -> BitAnd(p, CARRY) # 0
      [] opcode = \hD0 -> BitAnd(p, ZERO) = 0
      [] opcode = \hF0 -> BitAnd(p, ZERO) # 0
      [] opcode = \h10 -> BitAnd(p, NEGATIVE) = 0
      [] opcode = \h30 -> BitAnd(p, NEGATIVE) # 0
      [] opcode = \h50 -> BitAnd(p, OVERFLOW) = 0
      [] opcode = \h70 -> BitAnd(p, OVERFLOW) # 0

\* the address of the displacement byte of the branch just executed, and the displacement
DispAddr == (prev.program_counter + 1) % 65536
Disp == AsI8(BusByte(prev, DispAddr))

\* C1: after each of the eight branch instructions, for every displacement d in
\* -128..127, PC is (address of the displacement byte + 1 + d) mod 2^16 when the
\* condition holds, and the address of the displacement byte + 1 when it does not.
C1_BranchTarget ==
    (Stepped /\ last.data \in BranchOps) =>
        cpu.program_counter =
            IF BranchTaken(last.data, prev.status)
            THEN (DispAddr + 1 + Disp + 65536) % 65536
            ELSE (DispAddr + 1) % 65536

\* the instructions that write PC themselves
PcWriters == { \h4C, \h6C, \h20, \h60, \h40 }

\* the byte at offset k above the stack pointer of c
StackByte(c, k) == BusByte(c, STACK + ((c.stack_ptr + k) % 256))

\* the target that the instruction at c.program_counter writes to PC
JumpTarget(c, opcode) ==
    LET operand == BusWord(c, (c.program_counter + 1) % 65536)
    IN  CASE opcode \in { \h4C, \h20 } -> operand
          [] opcode = \h6C ->
                BusByte(c, operand)
                + 256 * BusByte(c, IF Lo(operand) = \hFF THEN operand - \hFF ELSE operand + 1)
          [] opcode = \h60 -> (StackByte(c, 1) + 256 * StackByte(c, 2) + 1) % 65536
          [] opcode = \h40 -> StackByte(c, 2) + 256 * StackByte(c, 3)

\* C2: after JMP absolute, JMP indirect, JSR, RTS and RTI, for every 16-bit target, PC
\* is exactly the target the instruction wrote; no length-1 advance is added to it.
C2_JumpTargetExact ==
    (Stepped /\ last.data \in PcWriters) =>
        cpu.program_counter = JumpTarget(prev, last.data)

\* C3: BRK pushes PC+1 (16 bits) and then P with Break set, so S goes down by 3,
\* sets InterruptDisable, and halts without loading PC from the vector at 0xFFFE.
C3_BrkPushesAndHalts ==
    (Stepped /\ last.data = BRK_OP) =>
        /\ phase = "returned"
        /\ cpu.stack_ptr = (prev.stack_ptr + 253) % 256
        /\ StackByte(cpu, 3) + 256 * StackByte(cpu, 2) = (prev.program_counter + 2) % 65536
        /\ BitAnd(StackByte(cpu, 1), BREAK) # 0
        /\ BitAnd(cpu.status, INTERRUPT_DISABLE) # 0
        /\ cpu.program_counter = (prev.program_counter + 1) % 65536

\* C4: the run loop exits when BRK or a KIL opcode is executed: after the turn
\* of the loop that fetched it, run() has returned and nothing more is fetched.
C4_HaltOpcodeReturns ==
    (Stepped /\ last.data \in KilOps \cup { BRK_OP }) => phase = "returned"

---------------------------------------------------------------------------
(* reset *)

\* C10: from any CPU state, reset() sets A = X = Y = 0, S = 0xFD, P = 0x24 and PC to
\* the little-endian word at 0xFFFC/0xFFFD, and leaves RAM and ROM unchanged.
C10_ResetState ==
    last.op = "reset" =>
        /\ cpu.panic = NoPanic
        /\ cpu.register_a = 0 /\ cpu.register_x = 0 /\ cpu.register_y = 0
        /\ cpu.stack_ptr = \hFD
        /\ cpu.status = \h24
        /\ cpu.program_counter = BusByte(prev, \hFFFC) + 256 * BusByte(prev, \hFFFD)
        /\ cpu.cpu_vram = prev.cpu_vram
        /\ cpu.rom = prev.rom
        /\ cpu.rom = cart

\* reset() was called on a machine a program had run on: registers, flags, stack
\* pointer and RAM all differed from their reset values
C10_Witness ==
    /\ last.op = "reset"
    /\ prev.register_a # 0 /\ prev.register_x # 0
    /\ prev.stack_ptr # \hFD
    /\ prev.status # \h24
    /\ prev.program_counter # cpu.program_counter
    /\ prev.cpu_vram # EmptyArr
    /\ cpu.program_counter = \hC000

---------------------------------------------------------------------------
(* The stack: pushes and pops applied to the machine, with a ghost of what is on it *)

\* the deepest nesting of pushes tried: one more than the 256 cells of page 1
MaxDepth == 257

\* nesting below which the pushed byte is drawn freely from StackBytes
FreeDepth == 2

StackBytes == { \h00, \hFF }

\* the stack pointers the sequences start from; from 0x00 the first push wraps S to 0xFF
StackStarts == { \hFD, \h00 }

\* the byte pushed at nesting n by the one long sequence: never 0, and not the same
\* 256 pushes later
PushByte(n) == (n % 255) + 1

\* the first n of bytes are the start of the long sequence
OnChain(bytes, n) == \A i \in 1..n : bytes[i] = PushByte(i - 1)

\* the bytes that may be pushed on top of bytes: any of StackBytes while the nesting
\* is shallow, and the next byte of the long sequence while it has only been pushed
PushData(bytes) ==
    (IF Len(bytes) < FreeDepth THEN StackBytes ELSE {})
    \cup (IF shadow.peak <= Len(bytes) /\ OnChain(bytes, Len(bytes))
          THEN { PushByte(Len(bytes)) } ELSE {})

\* the sequences tried pop at shallow nesting, and from the top of the long sequence
PopTried == shadow.peak <= FreeDepth \/ shadow.peak >= MaxDepth - 2

Peak(n) == IF n > shadow.peak THEN n ELSE shadow.peak

InitStack ==
    /\ cart = Cart32
    /\ \E checks \in BOOLEAN, s \in StackStarts :
          cpu = [CpuNew(cart, checks) EXCEPT !.stack_ptr = s]
    /\ phase = "host"
    /\ last = NoOp
    /\ prev = cpu
    /\ nops = 0
    /\ shadow = [base |-> cpu.stack_ptr, bytes |-> << >>, peak |-> 0]
    /\ given = cpu
    /\ ppu = NoPpu

\* self.stack_push(data)
StackPush(data) ==
    /\ Len(shadow.bytes) < MaxDepth
    /\ cpu' = stack_push(cpu, data)
    /\ shadow' = [shadow EXCEPT !.bytes = Append(@, data), !.peak = Peak(Len(shadow.bytes) + 1)]
    /\ last' = [op |-> "push", addr |-> 0, data |-> data, ret |-> 0]
    /\ prev' = cpu
    /\ UNCHANGED <<cart, phase, nops, given, ppu>>

\* self.stack_pop(); last.data is the byte of the matching push, last.ret the byte returned
StackPop ==
    /\ PopTried
    /\ Len(shadow.bytes) >= 1
    /\ LET r == stack_pop(cpu)
           n == Len(shadow.bytes)
       IN  /\ cpu' = r.c
           /\ shadow' = [shadow EXCEPT !.bytes = SubSeq(@, 1, n - 1)]
           /\ last' = [op |-> "pop", addr |-> 0, data |-> shadow.bytes[n], ret |-> r.v]
    /\ prev' = cpu
    /\ UNCHANGED <<cart, phase, nops, given, ppu>>

\* self.stack_push_u16(data)
StackPushU16(data) ==
    /\ Len(shadow.bytes) + 2 <= MaxDepth
    /\ cpu' = stack_push_u16(cpu, data)
    /\ shadow' = [shadow EXCEPT !.bytes = Append(Append(@, Hi(data)), Lo(data)),
                                !.peak = Peak(Len(shadow.bytes) + 2)]
    /\ last' = [op |-> "push_u16", addr |-> 0, data |-> data, ret |-> 0]
    /\ prev' = cpu
    /\ UNCHANGED <<cart, phase, nops, given, ppu>>

\* self.stack_pop_u16(); last.data is the word of the two matching pushes
StackPopU16 ==
    /\ PopTried
    /\ Len(shadow.bytes) >= 2
    /\ LET r == stack_pop_u16(cpu)
           n == Len(shadow.bytes)
       IN  /\ cpu' = r.c
           /\ shadow' = [shadow EXCEPT !.bytes = SubSeq(@, 1, n - 2)]
           /\ last' = [op |-> "pop_u16", addr |-> 0,
                       data |-> 256 * shadow.bytes[n - 1] + shadow.bytes[n], ret |-> r.v]
    /\ prev' = cpu
    /\ UNCHANGED <<cart, phase, nops, given, ppu>>

NextStack ==
    \/ \E data \in PushData(shadow.bytes) : StackPush(data)
    \/ StackPop
    \/ \E hi \in PushData(shadow.bytes) :
          \E lo \in PushData(Append(shadow.bytes, hi)) : StackPushU16(256 * hi + lo)
    \/ StackPopU16

SpecStack == InitStack /\ [][NextStack]_vars

---------------------------------------------------------------------------
(* The stack discipline *)

\* each stack operation touched memory at 0x0100 + S only: a push wrote its byte at
\* the old S and then decremented S, a pop incremented S and then read at the new S
StackAccessOk ==
    /\ cpu.panic = NoPanic
    /\ cpu.rom = prev.rom
    /\ last.op = "push" =>
          /\ cpu.cpu_vram = Store(prev.cpu_vram, STACK + prev.stack_ptr, last.data)
          /\ cpu.stack_ptr = (prev.stack_ptr + 255) % 256
    /\ last.op = "push_u16" =>
          /\ cpu.cpu_vram = Store(Store(prev.cpu_vram, STACK + prev.stack_ptr, Hi(last.data)),
                                  STACK + ((prev.stack_ptr + 255) % 256), Lo(last.data))
          /\ cpu.stack_ptr = (prev.stack_ptr + 254) % 256
    /\ last.op = "pop" =>
          /\ cpu.cpu_vram = prev.cpu_vram
          /\ cpu.stack_ptr = (prev.stack_ptr + 1) % 256
          /\ last.ret = Elem(prev.cpu_vram, STACK + cpu.stack_ptr)
    /\ last.op = "pop_u16" =>
          /\ cpu.cpu_vram = prev.cpu_vram
          /\ cpu.stack_ptr = (prev.stack_ptr + 2) % 256
          /\ last.ret = Elem(prev.cpu_vram, STACK + ((prev.stack_ptr + 1) % 256))
                        + 256 * Elem(prev.cpu_vram, STACK + cpu.stack_ptr)

\* S is its starting value less the number of bytes on the stack, modulo 256: a
\* balanced sequence leaves S unchanged
StackBalanced ==
    /\ cpu.stack_ptr = (shadow.base + 512 - Len(shadow.bytes)) % 256
    /\ Len(shadow.bytes) = 0 => cpu.stack_ptr = shadow.base

\* the pop just made returned what the matching push had pushed
PopMatches == last.op \in {"pop", "pop_u16"} => last.ret = last.data

\* C9 at any nesting: for every starting S and every balanced sequence, of any nesting,
\* S is unchanged, each pop returns the byte of the matching push, and the accesses
\* are at 0x0100 + S (write then decrement, increment then read).
C9_StackLifoAnyDepth == StackAccessOk /\ StackBalanced /\ PopMatches

\* C9 within the page: the same, for the sequences that never have more than 256
\* bytes on the stack at once.
C9_StackLifoWithin256 ==
    StackAccessOk /\ StackBalanced /\ (shadow.peak <= 256 => PopMatches)

\* a balanced sequence that filled all 256 cells, through the wrap of S from 0x00
\* to 0xFF, has just popped its last byte
C9_Witness ==
    /\ last.op = "pop"
    /\ shadow.peak = 256
    /\ shadow.base = \h00
    /\ Len(shadow.bytes) = 0
    /\ last.ret = PushByte(0)

---------------------------------------------------------------------------
(* Arithmetic and logic: one instruction at 0x0600, its operand put where  *)
(* its addressing mode finds it, then the run loop                         *)

\* where the instruction is
AluAt == \h0600

\* the index registers of the instructions whose addressing mode uses one
AluX == \h20
AluY == \h30

\* the operand bytes after the opcode (m is the operand of an immediate instruction)
OperandBytes(mode, m) ==
    CASE mode = "Immediate" -> << m >>
      [] mode = "ZeroPage" -> << \h40 >>
      [] mode \in {"ZeroPage_X", "ZeroPage_Y"} -> << \hF0 >>
      [] mode = "Absolute" -> << \h34, \h02 >>
      [] mode \in {"Absolute_X", "Absolute_Y"} -> << \hF0, \h02 >>
      [] mode = "Indirect_X" -> << \hF0 >>
      [] mode = "Indirect_Y" -> << \h20 >>
      [] OTHER -> << >>

\* the zero page cell where an indirect instruction finds its pointer, and the pointer
PointerAt(mode, x) == IF mode = "Indirect_X" THEN (\hF0 + x) % 256 ELSE \h20
PointerTo(mode) == IF mode = "Indirect_X" THEN \h0250 ELSE \h02F0

\* the address those operand bytes stand for with index registers x and y: zero page
\* indexing wraps within the page
OperandAddr(mode, x, y) ==
    CASE mode = "Immediate" -> AluAt + 1
      [] mode = "ZeroPage" -> \h40
      [] mode = "ZeroPage_X" -> (\hF0 + x) % 256
      [] mode = "ZeroPage_Y" -> (\hF0 + y) % 256
      [] mode = "Absolute" -> \h0234
      [] mode = "Absolute_X" -> \h02F0 + x
      [] mode = "Absolute_Y" -> \h02F0 + y
      [] mode = "Indirect_X" -> PointerTo(mode)
      [] mode = "Indirect_Y" -> PointerTo(mode) + y
      [] OTHER -> AluAt

\* the host writes the pointer of an indirect instruction
PlacePointer(c, mode) ==
    IF mode \in {"Indirect_X", "Indirect_Y"}
    THEN mem_write(mem_write(c, PointerAt(mode, c.register_x), Lo(PointerTo(mode))),
                   (PointerAt(mode, c.register_x) + 1) % 256, Hi(PointerTo(mode)))
    ELSE c

\* the host writes the operand m of an instruction that reads it from memory
PlaceOperand(c, mode, m) ==
    IF mode \in {"Immediate", "NoneAddressing"}
    THEN c
    ELSE mem_write(c, OperandAddr(mode, c.register_x, c.register_y), m)

\* the machine about to execute opcode on operand m with registers a, x, y and flags status
AluCpu(checks, opcode, m, a, x, y, status) ==
    PlaceOperand(
        PlacePointer(
            [InstrCpu(checks, AluAt, << opcode >> \o OperandBytes(OpMode(opcode), m),
                      status, STACK_RESET)
                EXCEPT !.register_a = a, !.register_x = x, !.register_y = y],
            OpMode(opcode)),
        OpMode(opcode), m)

\* values at the edges of the 8-bit range and of its signed halves
AluBytes == { \h00, \h01, \h40, \h7F, \h80, \h81, \hC0, \hFF }

\* the flags before the instruction: carry clear and set, the other flags clear and set
AluStatus == { \h24, \h25, \hE6, \hE7 }

\* the operand the instruction just executed was given, and its registers and carry
OperandM == BusByte(prev, OperandAddr(OpMode(last.data), prev.register_x, prev.register_y))
CarryIn == IF BitAnd(prev.status, CARRY) # 0 THEN 1 ELSE 0
Flag(c, flag) == BitAnd(c.status, flag) # 0

\* the flags of c other than those in the mask
OtherFlags(c, mask) == BitAnd(c.status, 255 - mask)

---------------------------------------------------------------------------
(* SpecAdc: ADC and SBC *)

AdcOps == { \h69, \h65, \h75, \h6D, \h7D, \h79, \h61, \h71 }
SbcOps == { \hE9, \hE5, \hF5, \hED, \hFD, \hF9, \hE1, \hF1, \hEB }

InitAdc ==
    \/ \E a \in Byte, m \in Byte, status \in InstrStatus :
          InstrStart(AluCpu(TRUE, \h69, m, a, AluX, AluY, status))
    \/ \E a \in AluBytes, m \in Byte, status \in AluStatus, opcode \in { \hE9, \hEB } :
          InstrStart(AluCpu(FALSE, opcode, m, a, AluX, AluY, status))
    \/ \E checks \in BOOLEAN, a \in AluBytes, m \in AluBytes, status \in AluStatus,
          opcode \in AdcOps \cup SbcOps :
          InstrStart(AluCpu(checks, opcode, m, a, AluX, AluY, status))

NextAdc == Step

SpecAdc == InitAdc /\ [][NextAdc]_vars

\* what add_to_register_a must leave for accumulator a, addend m and carry cin
AdcSum(a, m, cin) == a + m + cin
AdcResult(a, m, cin) == AdcSum(a, m, cin) % 256

AdcLeaves(c, a, m, cin) ==
    /\ c.register_a = AdcResult(a, m, cin)
    /\ Flag(c, CARRY) <=> AdcSum(a, m, cin) > \hFF
    /\ Flag(c, OVERFLOW) <=>
          BitAnd(BitAnd(BitXor(m, AdcResult(a, m, cin)), BitXor(AdcResult(a, m, cin), a)),
                 \h80) # 0
    /\ Flag(c, ZERO) <=> AdcResult(a, m, cin) = 0
    /\ Flag(c, NEGATIVE) <=> AdcResult(a, m, cin) >= \h80

\* C11: for all 8-bit A, M and carry-in C, ADC leaves A = (A + M + C) mod 256,
\* Carry = (A + M + C > 0xFF), Overflow = (((M xor result) and (result xor A) and 0x80)
\* # 0), Zero = (result = 0) and Negative = bit 7 of the result.
C11_AdcSum ==
    (Stepped /\ last.data \in AdcOps) =>
        AdcLeaves(cpu, prev.register_a, OperandM, CarryIn)

\* ADC #$80 with A = 0x80 and the carry set: the sum 0x101 leaves A = 1 with Carry and
\* Overflow set, Zero and Negative clear
C11_Witness ==
    /\ Stepped /\ last.data = \h69
    /\ prev.register_a = \h80 /\ OperandM = \h80 /\ CarryIn = 1
    /\ cpu.register_a = 1
    /\ Flag(cpu, CARRY) /\ Flag(cpu, OVERFLOW) /\ ~Flag(cpu, ZERO) /\ ~Flag(cpu, NEGATIVE)

\* the machine ADC #m leaves when run from c with its instruction replaced by ADC #m
AdcFrom(c, m) ==
    RunIteration(WriteAt([c EXCEPT !.program_counter = AluAt], AluAt, << \h69, m >>, 0)).c

\* C12: for all 8-bit A, M and carry-in C, SBC with operand M (the official opcodes
\* and 0xEB) leaves the same A and the same C, V, Z, N as ADC with operand M xor 0xFF
\* run from the same state.
C12_SbcIsAdcOfComplement ==
    (Stepped /\ last.data \in SbcOps) =>
        /\ cpu.register_a = AdcFrom(prev, BitXor(OperandM, \hFF)).register_a
        /\ BitAnd(cpu.status, CARRY + OVERFLOW + ZERO + NEGATIVE)
              = BitAnd(AdcFrom(prev, BitXor(OperandM, \hFF)).status,
                       CARRY + OVERFLOW + ZERO + NEGATIVE)

\* SBC #$01 (0xEB) from A = 0x80 with the carry set: A = 0x7F with Overflow and Carry
\* set, as ADC #$FE leaves
C12_Witness ==
    /\ Stepped /\ last.data = \hEB
    /\ prev.register_a = \h80 /\ OperandM = \h01 /\ CarryIn = 1
    /\ cpu.register_a = \h7F
    /\ Flag(cpu, OVERFLOW) /\ Flag(cpu, CARRY)

---------------------------------------------------------------------------
(* SpecAlu: compares, shifts and rotates, loads, transfers, increments,    *)
(* decrements, the logic instructions and the stack instructions on A and P *)

CmpAOps == { \hC9, \hC5, \hD5, \hCD, \hDD, \hD9, \hC1, \hD1 }
CpxOps == { \hE0, \hE4, \hEC }
CpyOps == { \hC0, \hC4, \hCC }
CompareOps == CmpAOps \cup CpxOps \cup CpyOps

AslOps == { \h0A, \h06, \h16, \h1E, \h0E }
LsrOps == { \h4A, \h46, \h56, \h4E, \h5E }
RolOps == { \h2A, \h26, \h36, \h2E, \h3E }
RorOps == { \h6A, \h66, \h76, \h6E, \h7E }
ShiftOps == AslOps \cup LsrOps \cup RolOps \cup RorOps

LdaOps == { \hA9, \hA5, \hB5, \hAD, \hBD, \hB9, \hA1, \hB1 }
LdxOps == { \hA2, \hA6, \hB6, \hAE, \hBE }
LdyOps == { \hA0, \hA4, \hB4, \hAC, \hBC }
LoadOps == LdaOps \cup LdxOps \cup LdyOps

\* TAX, TAY, TXA, TYA, TSX, INX, INY, DEX, DEY
RegisterOps == { \hAA, \hA8, \h8A, \h98, \hBA, \hE8, \hC8, \hCA, \h88 }

IncOps == { \hE6, \hF6, \hEE, \hFE }
DecOps == { \hC6, \hD6, \hCE, \hDE }

AndOps == { \h29, \h25, \h35, \h2D, \h3D, \h39, \h21, \h31 }
OraOps == { \h09, \h05, \h15, \h0D, \h1D, \h19, \h01, \h11 }
EorOps == { \h49, \h45, \h55, \h4D, \h5D, \h59, \h41, \h51 }
LogicOps == AndOps \cup OraOps \cup EorOps

PHP_OP == \h08
PLA_OP == \h68
PLP_OP == \h28

\* a value in A that no operand of the instruction is
SpareA == \h11

InitAlu ==
    \/ \E r \in Byte, m \in Byte :
          InstrStart(AluCpu(TRUE, \hC9, m, r, AluX, AluY, \h24))
    \/ \E checks \in BOOLEAN, r \in AluBytes, m \in AluBytes, status \in AluStatus,
          opcode \in CompareOps :
          InstrStart(AluCpu(checks, opcode, m,
                            IF opcode \in CmpAOps THEN r ELSE SpareA,
                            IF opcode \in CpxOps THEN r ELSE AluX,
                            IF opcode \in CpyOps THEN r ELSE AluY, status))
    \/ \E v \in Byte, status \in AluStatus, opcode \in ShiftOps :
          InstrStart(AluCpu(FALSE, opcode, v,
                            IF OpMode(opcode) = "NoneAddressing" THEN v ELSE SpareA,
                            AluX, AluY, status))
    \/ \E checks \in BOOLEAN, v \in Byte, status \in InstrStatus,
          opcode \in LoadOps \cup IncOps \cup DecOps :
          InstrStart(AluCpu(checks, opcode, v, SpareA, AluX, AluY, status))
    \/ \E v \in Byte, status \in InstrStatus, opcode \in RegisterOps :
          InstrStart([AluCpu(TRUE, opcode, 0, v, (v + \h55) % 256, (v + \hAA) % 256, status)
                         EXCEPT !.stack_ptr = (v + \h33) % 256])
    \/ \E a \in AluBytes, m \in Byte, status \in InstrStatus, opcode \in { \h29, \h09, \h49 } :
          InstrStart(AluCpu(TRUE, opcode, m, a, AluX, AluY, status))
    \/ \E a \in AluBytes, m \in AluBytes, status \in InstrStatus, opcode \in LogicOps :
          InstrStart(AluCpu(FALSE, opcode, m, a, AluX, AluY, status))
    \/ \E checks \in BOOLEAN, v \in Byte, status \in InstrStatus, sp \in InstrSP :
          InstrStart(stack_push(
              [AluCpu(checks, PLA_OP, 0, SpareA, AluX, AluY, status) EXCEPT !.stack_ptr = sp],
              v))
    \/ \E checks \in BOOLEAN, v \in Byte, status \in InstrStatus, sp \in InstrSP :
          InstrStart(stack_push(
              [AluCpu(checks, PLP_OP, 0, SpareA, AluX, AluY, status) EXCEPT !.stack_ptr = sp],
              v))
    \/ \E checks \in BOOLEAN, status \in Byte, sp \in InstrSP \cup { \h00 } :
          InstrStart([InstrCpu(checks, AluAt, << PHP_OP, PLP_OP >>, status, sp)
                         EXCEPT !.register_a = SpareA])

NextAlu == Step

SpecAlu == InitAlu /\ [][NextAlu]_vars

\* the flags Z and N are those of the byte v
ZnOf(c, v) ==
    /\ Flag(c, ZERO) <=> v = 0
    /\ Flag(c, NEGATIVE) <=> v >= \h80

\* the memory the bus shows is the same in c and d: RAM and ROM
SameMemory(c, d) == c.cpu_vram = d.cpu_vram /\ c.rom = d.rom

\* the register a compare instruction compares with
CompareReg(c, opcode) ==
    IF opcode \in CmpAOps THEN c.register_a
    ELSE IF opcode \in CpxOps THEN c.register_x
    ELSE c.register_y

\* C13: for CMP, CPX and CPY with register value R and operand M: Carry = (M <= R),
\* Zero and Negative are those of (R - M) mod 256, and A, X, Y, the Overflow flag and
\* memory are unchanged.
C13_CompareFlags ==
    (Stepped /\ last.data \in CompareOps) =>
        /\ Flag(cpu, CARRY) <=> OperandM <= CompareReg(prev, last.data)
        /\ ZnOf(cpu, (CompareReg(prev, last.data) - OperandM + 256) % 256)
        /\ cpu.register_a = prev.register_a
        /\ cpu.register_x = prev.register_x
        /\ cpu.register_y = prev.register_y
        /\ Flag(cpu, OVERFLOW) <=> Flag(prev, OVERFLOW)
        /\ SameMemory(cpu, prev)

\* CPX #$80 with X = 0x80 and the carry clear before: equal values set Carry and Zero
C13_Witness ==
    /\ Stepped /\ last.data = \hE0
    /\ prev.register_x = \h80 /\ OperandM = \h80 /\ ~Flag(prev, CARRY)
    /\ Flag(cpu, CARRY) /\ Flag(cpu, ZERO) /\ ~Flag(cpu, NEGATIVE)

\* the byte a shift or rotate works on, and the byte it leaves in the same place
ShiftIn ==
    IF OpMode(last.data) = "NoneAddressing" THEN prev.register_a ELSE OperandM
ShiftOut ==
    IF OpMode(last.data) = "NoneAddressing"
    THEN cpu.register_a
    ELSE BusByte(cpu, OperandAddr(OpMode(last.data), prev.register_x, prev.register_y))

\* C14: for every 8-bit operand v and carry-in c, in accumulator and memory forms: ASL
\* and ROL set Carry to bit 7 of v, LSR and ROR to bit 0 of v; ASL and LSR shift in a
\* 0, ROL puts c into bit 0 and ROR puts c into bit 7; Z and N are those of the result.
C14_ShiftRotate ==
    (Stepped /\ last.data \in ShiftOps) =>
        /\ Flag(cpu, CARRY) <=>
              IF last.data \in AslOps \cup RolOps THEN ShiftIn >= \h80 ELSE ShiftIn % 2 = 1
        /\ ShiftOut =
              CASE last.data \in AslOps -> (2 * ShiftIn) % 256
                [] last.data \in LsrOps -> ShiftIn \div 2
                [] last.data \in RolOps -> ((2 * ShiftIn) % 256) + CarryIn
                [] last.data \in RorOps -> (ShiftIn \div 2) + 128 * CarryIn
        /\ ZnOf(cpu, ShiftOut)

\* ROR $0234 on 0x01 with the carry set: the carry goes into bit 7, bit 0 into Carry
C14_Witness ==
    /\ Stepped /\ last.data = \h6E
    /\ ShiftIn = \h01 /\ CarryIn = 1
    /\ ShiftOut = \h80
    /\ Flag(cpu, CARRY) /\ Flag(cpu, NEGATIVE) /\ ~Flag(cpu, ZERO)

---------------------------------------------------------------------------
(* SpecCall: JSR, a subroutine, RTS *)

JSR_OP == \h20
RTS_OP == \h60

\* where the subroutines are
CallTargets == { \h0040, \h0700 }

\* subroutines whose pushes and pops balance: RTS; PHA PLA RTS; PHP PLP RTS;
\* PHA PHP PLP PLA RTS
Subroutines ==
    { << RTS_OP >>,
      << \h48, \h68, RTS_OP >>,
      << \h08, \h28, RTS_OP >>,
      << \h48, \h08, \h28, \h68, RTS_OP >> }

\* JSR t at `at`, with the code of the subroutine at t
CallCpu(checks, at, sp, t, body) ==
    WriteAt(InstrCpu(checks, at, << JSR_OP, Lo(t), Hi(t) >>, \h24, sp), t, body, 0)

InitCall ==
    \/ \E checks \in BOOLEAN, at \in InstrAddrs, sp \in InstrSP \cup { \h00 }, t \in Targets :
          InstrStart(InstrCpu(checks, at, << JSR_OP, Lo(t), Hi(t) >>, \h24, sp))
    \/ \E checks \in BOOLEAN, at \in InstrAddrs, sp \in InstrSP \cup { \h00 },
          t \in CallTargets, body \in Subroutines :
          InstrStart(CallCpu(checks, at, sp, t, body))
    \/ \E checks \in BOOLEAN, at \in InstrAddrs, sp \in InstrSP \cup { \h00 },
          t \in CallTargets, body \in Subroutines :
          InstrStart(WriteAt(
              CallCpu(checks, at, sp, t, << JSR_OP, Lo(t + \h10), Hi(t + \h10), RTS_OP >>),
              t + \h10, body, 0))

NextCall == Step

SpecCall == InitCall /\ [][NextCall]_vars

\* the run began with a JSR, and the RTS about to run finds S where that JSR left it
\* with the return address still there: the subroutine's stack use was balanced
OuterReturn ==
    /\ BusByte(given, given.program_counter) = JSR_OP
    /\ prev.stack_ptr = (given.stack_ptr + 254) % 256
    /\ StackByte(prev, 1) + 256 * StackByte(prev, 2) = (given.program_counter + 2) % 65536

\* C15: JSR at J pushes J+2, high byte first then low, and sets PC to its operand; RTS
\* pops low then high and sets PC to the popped value plus 1; so a JSR followed by a
\* subroutine with balanced stack use ending in RTS resumes at J+3 with S as before
\* the JSR.
C15_JsrRts ==
    /\ (Stepped /\ last.data = JSR_OP) =>
          /\ BusByte(cpu, STACK + prev.stack_ptr) = Hi((last.addr + 2) % 65536)
          /\ BusByte(cpu, STACK + ((prev.stack_ptr + 255) % 256)) = Lo((last.addr + 2) % 65536)
          /\ cpu.stack_ptr = (prev.stack_ptr + 254) % 256
          /\ cpu.program_counter = BusWord(prev, (last.addr + 1) % 65536)
    /\ (Stepped /\ last.data = RTS_OP) =>
          /\ cpu.program_counter
                = (StackByte(prev, 1) + 256 * StackByte(prev, 2) + 1) % 65536
          /\ cpu.stack_ptr = (prev.stack_ptr + 2) % 256
    /\ (Stepped /\ last.data = RTS_OP /\ OuterReturn) =>
          /\ cpu.program_counter = (given.program_counter + 3) % 65536
          /\ cpu.stack_ptr = given.stack_ptr

---------------------------------------------------------------------------
(* JMP indirect, checked under SpecInstr *)

JMP_INDIRECT == \h6C

\* the pointer of the JMP indirect just executed, and the word it stands for: the
\* high byte comes from the start of the pointer's page when the pointer ends in 0xFF
JmpPointer == BusWord(prev, (last.addr + 1) % 65536)
JmpVector ==
    BusByte(prev, JmpPointer)
    + 256 * BusByte(prev, IF BitAnd(JmpPointer, \hFF) = \hFF
                          THEN BitAnd(JmpPointer, \hFF00)
                          ELSE JmpPointer + 1)

\* C16: JMP indirect with pointer p sets PC to the little-endian word whose low byte
\* is at p and whose high byte is at p+1, except that when the low byte of p is 0xFF
\* the high byte is read at p & 0xFF00.
C16_JmpIndirect ==
    (Stepped /\ last.data = JMP_INDIRECT) => cpu.program_counter = JmpVector

---------------------------------------------------------------------------
(* SpecScenario: the host writes three bytes around a page boundary, then  *)
(* loads and runs JMP (page * 256 + 0xFF)                                  *)

\* the page whose last byte holds the low byte of the vector: the PPU's range, RAM, the
\* last page of RAM (the page after it is the PPU's) and the last page of the 2 KiB
ScenarioPages == { \h30, \h03, \h1F, \h07 }

\* the bytes written at page:FF, at page:00 and at (page + 1):00
ScenarioLow == { \h80, \h01 }
ScenarioHigh == { \h50, \h06 }
ScenarioNext == { \h00, \h40 }

\* let bus = Bus::new(rom); let mut cpu = CPU::new(bus); with the values of the script
InitScenario ==
    /\ cart \in Carts
    /\ \E checks \in BOOLEAN : cpu = CpuNew(cart, checks)
    /\ phase = "host"
    /\ last = NoOp
    /\ prev = cpu
    /\ nops = 0
    /\ shadow = [base |-> cpu.stack_ptr, bytes |-> << >>, peak |-> 0]
    /\ \E page \in ScenarioPages, low \in ScenarioLow, high \in ScenarioHigh,
          nxt \in ScenarioNext :
          given = [page |-> page, low |-> low, high |-> high, nxt |-> nxt]
    /\ ppu = NoPpu

\* the writes the script makes before it loads the program, in order
ScenarioScript ==
    << [addr |-> given.page * 256 + \hFF, data |-> given.low],
       [addr |-> given.page * 256, data |-> given.high],
       [addr |-> (given.page + 1) * 256, data |-> given.nxt] >>

\* cpu.mem_write(addr, data), the next write of the script
ScenarioWrite ==
    /\ phase = "host" /\ cpu.panic = NoPanic /\ nops < Len(ScenarioScript)
    /\ cpu' = mem_write(cpu, ScenarioScript[nops + 1].addr, ScenarioScript[nops + 1].data)
    /\ last' = [op |-> "mem_write", addr |-> ScenarioScript[nops + 1].addr,
                data |-> ScenarioScript[nops + 1].data, ret |-> 0]
    /\ prev' = cpu
    /\ nops' = nops + 1
    /\ UNCHANGED <<cart, phase, shadow, given, ppu>>

\* cpu.load_and_run(vec![0x6C, 0xFF, page]): the loop is entered at 0x0600
ScenarioRun ==
    /\ phase = "host" /\ cpu.panic = NoPanic /\ nops = Len(ScenarioScript)
    /\ cpu' = load_and_run(cpu, << JMP_INDIRECT, \hFF, given.page >>)
    /\ phase' = "run"
    /\ last' = [op |-> "load_and_run", addr |-> \h0600, data |-> 3, ret |-> 0]
    /\ prev' = cpu
    /\ nops' = nops + 1
    /\ UNCHANGED <<cart, shadow, given, ppu>>

NextScenario ==
    \/ ScenarioWrite
    \/ ScenarioRun
    \/ Step

SpecScenario == InitScenario /\ [][NextScenario]_vars

\* the values of the scenario: 0x80 at 0x30FF, 0x50 at 0x3000, 0x00 at 0x3100
LiteralScenario ==
    given.page = \h30 /\ given.low = \h80 /\ given.high = \h50 /\ given.nxt = \h00

\* the script can go no further: the thread has panicked, or run() has returned
ScenarioOver == cpu.panic # NoPanic \/ phase = "returned"

\* C17: after writing 0x80 at 0x30FF, 0x50 at 0x3000 and 0x00 at 0x3100 through the
\* CPU's memory interface and running [0x6C, 0xFF, 0x30] from the load address, the
\* run completes with PC = 0x5080: the script ends only by run() returning, and then
\* with that program counter.
C17_JmpBugScenario ==
    (LiteralScenario /\ ScenarioOver) =>
        /\ cpu.panic = NoPanic
        /\ phase = "returned"
        /\ cpu.program_counter = \h5080

---------------------------------------------------------------------------
(* PHP, PLP and the Z and N flags, checked under SpecAlu *)

\* the run began with PHP and the PLP just executed is the instruction after it
PlpAfterPhp ==
    /\ BusByte(given, given.program_counter) = PHP_OP
    /\ last.data = PLP_OP
    /\ last.addr = (given.program_counter + 1) % 65536

\* a status byte with Break cleared and Unused set
BreakOffUnusedOn(p) == BitOr(BitAnd(p, 255 - BREAK), UNUSED)

\* C18: PHP pushes P | 0x30 and leaves P unchanged; PLP loads P from the popped byte
\* with Break forced to 0 and Unused forced to 1; so PHP immediately followed by PLP
\* leaves S unchanged and P as before with Break cleared and Unused set.
C18_PhpPlp ==
    /\ (Stepped /\ last.data = PHP_OP) =>
          /\ BusByte(cpu, STACK + prev.stack_ptr) = BitOr(prev.status, \h30)
          /\ cpu.stack_ptr = (prev.stack_ptr + 255) % 256
          /\ cpu.status = prev.status
    /\ (Stepped /\ last.data = PLP_OP) =>
          /\ cpu.status = BreakOffUnusedOn(StackByte(prev, 1))
          /\ cpu.stack_ptr = (prev.stack_ptr + 1) % 256
    /\ (Stepped /\ PlpAfterPhp) =>
          /\ cpu.stack_ptr = given.stack_ptr
          /\ cpu.status = BreakOffUnusedOn(given.status)

\* PHP; PLP from S = 0x00 with P = 0xD3 (Break set, Unused clear): the push wraps to
\* 0x01FF and back, and P comes back as 0xE3
C18_Witness ==
    /\ Stepped /\ PlpAfterPhp
    /\ given.stack_ptr = \h00 /\ given.status = \hD3
    /\ prev.stack_ptr = \hFF
    /\ cpu.stack_ptr = \h00 /\ cpu.status = \hE3

\* the instructions that set Z and N from the value they write
ZnOps == LoadOps \cup RegisterOps \cup IncOps \cup DecOps \cup LogicOps \cup { PLA_OP }

\* the value the instruction just executed left in its destination
Written ==
    CASE last.data \in LdaOps \cup LogicOps \cup { \h8A, \h98, PLA_OP } -> cpu.register_a
      [] last.data \in LdxOps \cup { \hAA, \hBA, \hE8, \hCA } -> cpu.register_x
      [] last.data \in LdyOps \cup { \hA8, \hC8, \h88 } -> cpu.register_y
      [] last.data \in IncOps \cup DecOps ->
            BusByte(cpu, OperandAddr(OpMode(last.data), prev.register_x, prev.register_y))

\* C19: after each of LDA, LDX, LDY, TAX, TAY, TXA, TYA, TSX, INX, INY, DEX, DEY, INC,
\* DEC, AND, ORA, EOR and PLA, Zero = (v = 0) and Negative = bit 7 of v for the value
\* v the instruction wrote to its register or memory cell, and no other flag changes.
C19_ZeroNegativeFollowResult ==
    (Stepped /\ last.data \in ZnOps) =>
        /\ ZnOf(cpu, Written)
        /\ OtherFlags(cpu, ZERO + NEGATIVE) = OtherFlags(prev, ZERO + NEGATIVE)

\* DEC absolute on a cell holding 0x01 with P = 0xE7 before: the cell holds 0 and P is
\* 0x67, Negative cleared, Zero still set, the other six bits as they were
C19_Witness ==
    /\ Stepped /\ last.data = \hCE
    /\ OperandM = \h01 /\ Written = \h00
    /\ prev.status = \hE7 /\ cpu.status = \h67

---------------------------------------------------------------------------
(* The observer of run_with_callback, checked under Spec *)

\* the turn of the loop just taken called the observer once, handing it the machine
\* as the instruction left it: registers, memory and program counter
ObservedOnceAtEnd == last.ret = 1 /\ last.seen = << cpu >>

---------------------------------------------------------------------------
(* SpecDispatch: every opcode byte, placed in RAM with two operand bytes, then run *)

\* the two bytes after the opcode: an operand, a zero page cell, a displacement or the
\* address 0x0210 or 0x07F0, as the opcode takes them
DispatchOperands == { << \h10, \h02 >>, << \hF0, \h07 >> }

InitDispatch ==
    \E checks \in BOOLEAN, opcode \in Byte, operands \in DispatchOperands,
       status \in InstrStatus :
        InstrStart([InstrCpu(checks, AluAt, << opcode >> \o operands, status, STACK_RESET)
                       EXCEPT !.register_a = \h81, !.register_x = \h05,
                              !.register_y = \h0A])

NextDispatch == Step

SpecDispatch == InitDispatch /\ [][NextDispatch]_vars

\* the opcodes whose handler or arm leaves the program counter to the loop tail
PcKeepers == Byte \ (PcWriters \cup BranchOps \cup { BRK_OP })

\* C21: for every opcode byte in 0..=255 the dispatcher selects a defined instruction
\* handler (no handler is asked for an operand the opcode table gives no addressing
\* mode for, and there is no unknown-opcode outcome), and the instruction length that
\* advances PC is 1, 2 or 3.
C21_DispatchTotal ==
    (last.op = "step") =>
        /\ last.data \in Byte
        /\ OpLength(last.data) \in {1, 2, 3}
        /\ cpu.panic # "mode NoneAddressing is not supported"
        /\ (Stepped /\ last.data \in PcKeepers) =>
               cpu.program_counter = prev.program_counter + OpLength(last.data)

\* the unofficial LAX zero page,Y (0xB7) with operand 0xF0 and Y = 0x0A has run: two
\* bytes long, it read the cell 0x00FA and left the program counter at 0x0602
C21_Witness ==
    /\ Stepped /\ last.data = \hB7
    /\ BusByte(prev, \h0601) = \hF0
    /\ OpLength(last.data) = 2
    /\ cpu.register_a = BusByte(prev, \h00FA)
    /\ cpu.program_counter = \h0602

---------------------------------------------------------------------------
(* SpecRom: the host reads program ROM through the bus *)

\* the non-zero byte at index i of the program ROMs below: it differs from its
\* neighbours' and from the byte 0x4000 further on
RomFill(i) == 1 + (((i % 251) + 7 * (i \div PRG_ROM_PAGE)) % 255)

\* the first two bytes, a middle byte and the last byte of the first and the last page
\* of every eight pages of 0x8000..=0xFFFF: both ends of the ROM window and of its halves
RomReadAddrs ==
    { \h8000 + 256 * (8 * block + page) + k :
        block \in 0 .. 15, page \in { 0, 7 }, k \in { \h00, \h01, \h7F, \hFF } }

\* a 16 KiB and a 32 KiB cartridge, filled in wherever those addresses can fall
RomCarts ==
    { Rom(\h4000, [i \in { a - \h8000 : a \in RomReadAddrs } \cap (0 .. \h3FFF)
                      |-> RomFill(i)]),
      Rom(\h8000, [i \in { a - \h8000 : a \in RomReadAddrs } |-> RomFill(i)]) }

InitRom ==
    /\ cart \in RomCarts
    /\ \E checks \in BOOLEAN : cpu = CpuNew(cart, checks)
    /\ phase = "host"
    /\ last = NoOp
    /\ prev = cpu
    /\ nops = 0
    /\ shadow = [base |-> cpu.stack_ptr, bytes |-> << >>, peak |-> 0]
    /\ given = cpu
    /\ ppu = NoPpu

NextRom == \E addr \in RomReadAddrs : MemRead(addr)

SpecRom == InitRom /\ [][NextRom]_vars

\* the index into program ROM that the address a stands for
PrgIndex(a) ==
    IF cart.len = \h4000 THEN (a - \h8000) % \h4000 ELSE a - \h8000

\* C22: a bus read at a in 0x8000..=0xFFFF returns prg_rom[a - 0x8000] when program
\* ROM is 32 KiB and prg_rom[(a - 0x8000) mod 0x4000] when it is 16 KiB, so with 16 KiB
\* read(a) = read(a + 0x4000) for a in 0x8000..=0xBFFF; the index is within the ROM.
C22_PrgRomRead ==
    (last.op = "mem_read" /\ last.addr \in \h8000 .. \hFFFF) =>
        /\ cpu.panic = NoPanic
        /\ PrgIndex(last.addr) \in 0 .. (cart.len - 1)
        /\ last.ret = Elem(cart.prg_rom, PrgIndex(last.addr))
        /\ (cart.len = \h4000 /\ last.addr <= \hBFFF) =>
               last.ret = mem_read(cpu, last.addr + \h4000).v

\* the 16 KiB cartridge read at 0xFFFF: the byte is the one at index 0x3FFF, which is
\* also what 0xBFFF reads
C22_Witness ==
    /\ last.op = "mem_read" /\ last.addr = \hFFFF /\ cart.len = \h4000
    /\ cpu.panic = NoPanic
    /\ last.ret = RomFill(\h3FFF) /\ last.ret # 0
    /\ mem_read(cpu, \hBFFF).v = last.ret

---------------------------------------------------------------------------
(* SpecDecimal: ADC, SBC, SED and CLD with the DecimalMode flag either way *)

SED_OP == \hF8
CLD_OP == \hD8

\* the flags before the instruction: those of AluStatus, each with DecimalMode clear
\* and set
DecimalStatus == { \h24, \h25, \hE6, \hE7, \h2C, \h2D, \hEE, \hEF }

\* addends whose decimal digits pass nine, or not, when added
DecimalBytes == { \h00, \h01, \h05, \h09, \h0F, \h10, \h19, \h45, \h55, \h90, \h99, \hFF }

InitDecimal ==
    \/ \E a \in Byte, m \in DecimalBytes, status \in { \h2C, \h2D },
          opcode \in { \h69, \hE9 } :
          InstrStart(AluCpu(FALSE, opcode, m, a, AluX, AluY, status))
    \/ \E checks \in BOOLEAN, a \in AluBytes, m \in AluBytes, status \in DecimalStatus,
          opcode \in AdcOps \cup SbcOps :
          InstrStart(AluCpu(checks, opcode, m, a, AluX, AluY, status))
    \/ \E checks \in BOOLEAN, status \in Byte, opcode \in { SED_OP, CLD_OP } :
          InstrStart(AluCpu(checks, opcode, 0, SpareA, AluX, AluY, status))

NextDecimal == Step

SpecDecimal == InitDecimal /\ [][NextDecimal]_vars

\* the machine the instruction just executed would have left, had it started from
\* the same state with the DecimalMode bit the other way
DecimalTwin ==
    RunIteration([prev EXCEPT !.status = BitXor(prev.status, DECIMAL_MODE)]).c

ArithmeticFlags(c) == BitAnd(c.status, CARRY + OVERFLOW + ZERO + NEGATIVE)

\* C23: the DecimalMode flag has no arithmetic effect: from two states that differ only
\* in the DecimalMode bit of P, the same ADC or SBC with the same operand leaves the
\* same A and the same C, V, Z, N; SED and CLD change only the DecimalMode bit.
C23_DecimalModeIgnored ==
    /\ (Stepped /\ last.data \in AdcOps \cup SbcOps) =>
          /\ DecimalTwin.panic = NoPanic
          /\ DecimalTwin.register_a = cpu.register_a
          /\ ArithmeticFlags(DecimalTwin) = ArithmeticFlags(cpu)
          /\ BitAnd(cpu.status, DECIMAL_MODE) = BitAnd(prev.status, DECIMAL_MODE)
    /\ (Stepped /\ last.data = SED_OP) =>
          cpu = [prev EXCEPT !.status = BitOr(prev.status, DECIMAL_MODE),
                             !.program_counter = prev.program_counter + 1]
    /\ (Stepped /\ last.data = CLD_OP) =>
          cpu = [prev EXCEPT !.status = BitAnd(prev.status, 255 - DECIMAL_MODE),
                             !.program_counter = prev.program_counter + 1]

\* ADC #$01 on A = 0x09 with DecimalMode set and the carry clear: A is 0x0A, the binary
\* sum, not the decimal 0x10, as it is from the same state with DecimalMode clear
C23_Witness ==
    /\ Stepped /\ last.data = \h69
    /\ prev.register_a = \h09 /\ OperandM = \h01 /\ prev.status = \h2C
    /\ cpu.register_a = \h0A /\ cpu.status = \h2C
    /\ DecimalTwin.register_a = \h0A /\ DecimalTwin.status = \h24

---------------------------------------------------------------------------
(* The host drives a PPU: its address and control registers and its data port *)

\* how many calls the host makes on a PPU it constructed
MaxPpuOps == 4

\* an 8 KiB character ROM with three bytes set
ChrRom == (\h0000 :> \h11) @@ (\h0001 :> \h22) @@ (\h1FFF :> \h33)

\* `let ppu = PPU::new(chr_rom, mirroring);`: shadow is the list of the calls made on
\* the PPU since, each with its argument
PpuStart(p) ==
    /\ cart = Cart16
    /\ cpu = CpuNew(cart, p.overflow_checks)
    /\ phase = "ppu"
    /\ last = NoOp
    /\ prev = p
    /\ nops = 0
    /\ shadow = << >>
    /\ given = p
    /\ ppu = p

InitPpu ==
    \E mirroring \in { "HORIZONTAL", "VERTICAL" }, checks \in BOOLEAN :
        PpuStart(PpuNew(\h2000, ChrRom, mirroring, checks))

\* the host can call the PPU: none of its calls has panicked
PpuCan(bound) == phase = "ppu" /\ ppu.panic = NoPanic /\ nops < bound

\* the bookkeeping of a call on the PPU that leaves it as p and returns ret
PpuCall(op, data, p, ret) ==
    /\ ppu' = p
    /\ last' = [op |-> op, addr |-> 0, data |-> data, ret |-> ret]
    /\ prev' = ppu
    /\ nops' = nops + 1
    /\ shadow' = Append(shadow, [op |-> op, data |-> data])
    /\ UNCHANGED <<cpu, cart, phase, given>>

\* ppu.write_to_ppu_addr(value)
WriteToPpuAddr(bound, value) ==
    /\ PpuCan(bound)
    /\ PpuCall("write_to_ppu_addr", value, write_to_ppu_addr(ppu, value), 0)

\* ppu.write_to_ctrl(value)
WriteToCtrl(bound, value) ==
    /\ PpuCan(bound)
    /\ PpuCall("write_to_ctrl", value, write_to_ctrl(ppu, value), 0)

\* ppu.write_to_data(value)
WriteToData(bound, value) ==
    /\ PpuCan(bound)
    /\ PpuCall("write_to_data", value, write_to_data(ppu, value), 0)

\* ppu.read_data()
ReadData(bound) ==
    /\ PpuCan(bound)
    /\ \E r \in { read_data(ppu) } : PpuCall("read_data", 0, r.c, r.v)

\* ppu.addr.increment(step)
AddrIncrement(bound, step) ==
    /\ PpuCan(bound)
    /\ PpuCall("increment", step,
               [ppu EXCEPT !.addr = AddrRegister_increment(ppu.addr, step)], 0)

\* ppu.addr.reset_latch()
ResetLatch(bound) ==
    /\ PpuCan(bound)
    /\ PpuCall("reset_latch", 0,
               [ppu EXCEPT !.addr = AddrRegister_reset_latch(ppu.addr)], 0)

\* the bytes written to the address register, and to the control register
PpuAddrBytes == { \h00, \h3F, \h7F, \hFF }
PpuCtrlBytes == { \h00, \h04 }

\* the steps of the two settings of the control register's increment bit
PpuSteps == { 1, 32 }

NextPpu ==
    \/ \E value \in PpuAddrBytes : WriteToPpuAddr(MaxPpuOps, value)
    \/ \E value \in PpuCtrlBytes : WriteToCtrl(MaxPpuOps, value)
    \/ WriteToData(MaxPpuOps, \h5A)
    \/ ReadData(MaxPpuOps)
    \/ \E step \in PpuSteps : AddrIncrement(MaxPpuOps, step)
    \/ ResetLatch(MaxPpuOps)

SpecPpu == InitPpu /\ [][NextPpu]_vars

\* how many address writes the list of calls h ends with, back to the latest
\* reset_latch or to construction
RECURSIVE WritesSinceLatch(_)
WritesSinceLatch(h) ==
    IF h = << >> \/ h[Len(h)].op = "reset_latch" THEN 0
    ELSE (IF h[Len(h)].op = "write_to_ppu_addr" THEN 1 ELSE 0)
         + WritesSinceLatch(SubSeq(h, 1, Len(h) - 1))

\* the last two calls were address writes, the first of them taken as the high byte
HighThenLow ==
    /\ Len(shadow) >= 2
    /\ shadow[Len(shadow) - 1].op = "write_to_ppu_addr"
    /\ shadow[Len(shadow)].op = "write_to_ppu_addr"
    /\ WritesSinceLatch(shadow) % 2 = 0

\* C24: the PPU address register takes writes alternately as high byte then low byte,
\* starting with high after construction or reset_latch, the toggle flipping after
\* every write; after a write of hi followed by a write of lo its value is
\* ((hi & 0x3F) << 8) | lo; after any sequence of updates and increments the value is
\* at most 0x3FFF.
C24_AddrRegisterWrites ==
    (phase = "ppu" /\ ppu.panic = NoPanic) =>
        /\ ppu.addr.hi_ptr <=> (WritesSinceLatch(shadow) % 2 = 0)
        /\ (last.op = "write_to_ppu_addr") =>
              /\ ppu.addr.hi_ptr = ~prev.addr.hi_ptr
              /\ prev.addr.hi_ptr =>
                    /\ ppu.addr.value[0] = BitAnd(last.data, \h3F)
                    /\ ppu.addr.value[1] = prev.addr.value[1]
              /\ ~prev.addr.hi_ptr =>
                    /\ ppu.addr.value[0] = prev.addr.value[0]
                    /\ ppu.addr.value[1] = last.data
        /\ HighThenLow =>
              AddrRegister_get(ppu.addr)
                  = 256 * BitAnd(shadow[Len(shadow) - 1].data, \h3F) + shadow[Len(shadow)].data
        /\ AddrRegister_get(ppu.addr) <= \h3FFF

\* after a reset_latch that followed one address write, 0xFF and then 0x7F were
\* written: the register holds 0x3F7F, the high byte masked, and expects a high byte
C24_Witness ==
    /\ phase = "ppu" /\ ppu.panic = NoPanic
    /\ Len(shadow) = 4
    /\ shadow[1].op = "write_to_ppu_addr" /\ shadow[2].op = "reset_latch"
    /\ shadow[3] = [op |-> "write_to_ppu_addr", data |-> \hFF]
    /\ shadow[4] = [op |-> "write_to_ppu_addr", data |-> \h7F]
    /\ AddrRegister_get(ppu.addr) = \h3F7F
    /\ ppu.addr.hi_ptr

---------------------------------------------------------------------------
(* SpecPpuStep: a PPU whose address register holds any 14-bit value, then stepped *)

\* how many calls the host makes on the PPU once its address is set
MaxStepOps == 1

\* the PPU after `write_to_ctrl(ctrl)` and two address writes, the high and the low
\* byte of v, and one more address write if the register is left expecting a low byte
PpuAt(mirroring, checks, ctrl, v, hi_ptr) ==
    With({
        IF hi_ptr THEN p ELSE write_to_ppu_addr(p, Hi(v))
      : p \in { write_to_ppu_addr(
                    write_to_ppu_addr(
                        write_to_ctrl(PpuNew(\h2000, ChrRom, mirroring, checks), ctrl),
                        Hi(v)),
                    Lo(v)) } })

InitPpuStep ==
    \E v \in 0 .. \h3FFF, hi_ptr \in BOOLEAN, ctrl \in PpuCtrlBytes :
        PpuStart(PpuAt("HORIZONTAL", TRUE, ctrl, v, hi_ptr))

NextPpuStep ==
    \/ \E step \in PpuSteps : AddrIncrement(MaxStepOps, step)
    \/ WriteToData(MaxStepOps, \h5A)
    \/ ReadData(MaxStepOps)

SpecPpuStep == InitPpuStep /\ [][NextPpuStep]_vars

\* the step the control register of p selects: bit 2 clear, 1; bit 2 set, 32
CtrlStep(p) == IF (p.ctrl \div 4) % 2 = 0 THEN 1 ELSE 32

\* the address register went from its value before the call to that value plus step,
\* modulo 0x4000, and the write toggle is as it was
SteppedBy(step) ==
    /\ AddrRegister_get(ppu.addr) = (AddrRegister_get(prev.addr) + step) % \h4000
    /\ ppu.addr.hi_ptr = prev.addr.hi_ptr

\* C25: for every PPU address v in 0..=0x3FFF and step in {1, 32}, increment(step)
\* leaves the address register at (v + step) mod 0x4000 and the write toggle as it
\* was; PPU data reads and writes step by 1 when bit 2 of the control register is
\* clear and by 32 when it is set.
C25_AddrIncrement ==
    /\ (last.op = "increment") => SteppedBy(last.data)
    /\ (last.op \in { "read_data", "write_to_data" } /\ ppu.panic = NoPanic) =>
           SteppedBy(CtrlStep(prev))

\* increment(32) at 0x3FE5 carries out of the low byte and out of the 14 bits: the
\* register holds 0x0005
C25_Witness ==
    /\ last.op = "increment" /\ last.data = 32
    /\ AddrRegister_get(prev.addr) = \h3FE5
    /\ AddrRegister_get(ppu.addr) = \h0005
    /\ ~prev.addr.hi_ptr /\ ~ppu.addr.hi_ptr

---------------------------------------------------------------------------
(* SpecProgram: the tests at the end of cpu.rs, for every byte loaded by LDA *)

\* LDA #v; TAX; INX; BRK
FiveOps(v) == << \hA9, v, \hAA, \hE8, \h00 >>

\* `let mut cpu = CPU::new(..); cpu.load_and_run(program);`: the one call of a test
TestLoadAndRun(program) ==
    /\ phase = "host"
    /\ cpu.panic = NoPanic
    /\ cpu' = load_and_run(cpu, program)
    /\ phase' = "run"
    /\ last' = [op |-> "load_and_run", addr |-> \h0600, data |-> Len(program), ret |-> 0]
    /\ prev' = cpu
    /\ nops' = nops + 1
    /\ UNCHANGED <<cart, shadow, given, ppu>>

NextProgram ==
    \/ \E v \in Byte : TestLoadAndRun(FiveOps(v))
    \/ Step

SpecProgram == InitHost /\ [][NextProgram]_vars

\* the byte that the program in RAM loads into A
LoadedV == BusByte(cpu, \h0601)

\* C26: for every byte v, load_and_run of [0xA9, v, 0xAA, 0xE8, 0x00] starts execution
\* at the first loaded byte and returns with A = v and X = (v + 1) mod 256, Z and N
\* reflecting the final X.
C26_FiveOpsProgram ==
    /\ cpu.panic = NoPanic
    /\ (last.op = "load_and_run") =>
          /\ cpu.program_counter = \h0600
          /\ \E v \in Byte :
                \A i \in 1 .. 5 : BusByte(cpu, \h0600 + i - 1) = FiveOps(v)[i]
    /\ (last.op = "step") =>
          /\ last.addr \in { \h0600, \h0602, \h0603, \h0604 }
          /\ (phase = "returned") <=> (last.addr = \h0604)
    /\ (phase = "returned") =>
          /\ cpu.register_a = LoadedV
          /\ cpu.register_x = (LoadedV + 1) % 256
          /\ ZnOf(cpu, cpu.register_x)

\* the program with v = 0xFF has returned: A = 0xFF, INX wrapped X to 0x00 and Zero
\* is set, Negative clear
C26_Witness ==
    /\ phase = "returned" /\ LoadedV = \hFF
    /\ cpu.register_a = \hFF /\ cpu.register_x = \h00
    /\ Flag(cpu, ZERO) /\ ~Flag(cpu, NEGATIVE)

---------------------------------------------------------------------------
(* SpecUnofficial: the unofficial opcodes that combine two operations *)

DcpOps == { \hC7, \hD7, \hCF, \hDF, \hDB, \hC3, \hD3 }
SloOps == { \h07, \h17, \h0F, \h1F, \h1B, \h03, \h13 }
RlaOps == { \h27, \h37, \h2F, \h3F, \h3B, \h23, \h33 }
SreOps == { \h47, \h57, \h4F, \h5F, \h5B, \h43, \h53 }
RraOps == { \h67, \h77, \h6F, \h7F, \h7B, \h63, \h73 }
IscOps == { \hE7, \hF7, \hEF, \hFF, \hFB, \hE3, \hF3 }
CombinedOps == SloOps \cup RlaOps \cup SreOps \cup RraOps \cup IscOps

AXS_OP == \hCB
ATX_OP == \hAB
XAA_OP == \h8B

InitUnofficial ==
    \/ \E checks \in BOOLEAN, a \in AluBytes, m \in AluBytes, status \in AluStatus,
          opcode \in DcpOps \cup CombinedOps :
          InstrStart(AluCpu(checks, opcode, m, a, AluX, AluY, status))
    \/ \E a \in Byte, m \in AluBytes, opcode \in { \hC7, \h67 } :
          InstrStart(AluCpu(FALSE, opcode, m, a, AluX, AluY, \h25))
    \/ \E checks \in BOOLEAN, a \in AluBytes, x \in AluBytes, m \in AluBytes,
          status \in AluStatus, opcode \in { AXS_OP, ATX_OP, XAA_OP } :
          InstrStart(AluCpu(checks, opcode, m, a, x, AluY, status))

NextUnofficial == Step

SpecUnofficial == InitUnofficial /\ [][NextUnofficial]_vars

\* C27: DCP on memory cell M with accumulator A is DEC on that cell followed by CMP
\* against A: memory becomes (M - 1) mod 256, Carry = ((M - 1) mod 256 <= A) for every
\* prior value of Carry, Z and N are those of (A - (M - 1)) mod 256, and A is unchanged.
C27_DcpIsDecThenCmp ==
    (Stepped /\ last.data \in DcpOps) =>
        LET result == (OperandM + 255) % 256
        IN  /\ BusByte(cpu, OperandAddr(OpMode(last.data), prev.register_x, prev.register_y))
                  = result
            /\ Flag(cpu, CARRY) <=> (result <= prev.register_a)
            /\ ZnOf(cpu, (prev.register_a - result + 256) % 256)
            /\ cpu.register_a = prev.register_a

\* C28: SBX/AXS (0xCB) with operand M sets X to ((A & X) - M) mod 256, Carry to
\* (M <= (A & X)), and Zero and Negative from the result, for all A, X, M and every
\* prior flag state.
C28_AxsSubtracts ==
    (Stepped /\ last.data = AXS_OP) =>
        LET x_and_a == BitAnd(prev.register_a, prev.register_x)
        IN  /\ cpu.register_x = (x_and_a - OperandM + 256) % 256
            /\ Flag(cpu, CARRY) <=> (OperandM <= x_and_a)
            /\ ZnOf(cpu, cpu.register_x)

\* C29: ATX/LXA (0xAB) and XAA/ANE (0x8B) with operand M both set A to (A_old & M);
\* LXA also sets X to the new A; Z and N reflect the new A.
C29_AtxXaaAndWithA ==
    (Stepped /\ last.data \in { ATX_OP, XAA_OP }) =>
        /\ cpu.register_a = BitAnd(prev.register_a, OperandM)
        /\ (last.data = ATX_OP) => cpu.register_x = cpu.register_a
        /\ ZnOf(cpu, cpu.register_a)

\* the machine before the instruction just executed, its opcode fetched
Fetched == SetPC(prev, prev.program_counter + 1)

\* the two official handlers of a combined opcode, run one after the other on the
\* operand of the combined opcode
InSequence(c, opcode) ==
    CASE opcode \in SloOps -> ora(asl(c, OpMode(opcode)).c, OpMode(opcode))
      [] opcode \in RlaOps -> and(rol(c, OpMode(opcode)).c, OpMode(opcode))
      [] opcode \in SreOps -> eor(lsr(c, OpMode(opcode)).c, OpMode(opcode))
      [] opcode \in RraOps -> adc(ror(c, OpMode(opcode)).c, OpMode(opcode))
      [] opcode \in IscOps -> sbc(inc(c, OpMode(opcode)).c, OpMode(opcode))

\* C30: each combined read-modify-write unofficial opcode has the same effect on
\* memory, A and the flags as its two official instructions executed in sequence on
\* the same effective address: SLO = ASL then ORA, RLA = ROL then AND, SRE = LSR then
\* EOR, RRA = ROR then ADC (with the carry of the ROR), ISC = INC then SBC.
C30_CombinedReadModifyWrite ==
    (Stepped /\ last.data \in CombinedOps) =>
        /\ InSequence(Fetched, last.data).panic = NoPanic
        /\ cpu.register_a = InSequence(Fetched, last.data).register_a
        /\ cpu.status = InSequence(Fetched, last.data).status
        /\ SameMemory(cpu, InSequence(Fetched, last.data))

\* RRA zero page on 0x01 with A = 0x7F and the carry clear: the cell holds 0x00, the
\* rotate's carry is added, so A = 0x7F + 0x00 + 1 = 0x80 with Overflow and Negative set
C30_Witness ==
    /\ Stepped /\ last.data = \h67
    /\ OperandM = \h01 /\ prev.register_a = \h7F /\ ~Flag(prev, CARRY)
    /\ BusByte(cpu, \h40) = \h00
    /\ cpu.register_a = \h80
    /\ Flag(cpu, OVERFLOW) /\ Flag(cpu, NEGATIVE) /\ ~Flag(cpu, CARRY)

---------------------------------------------------------------------------
(* SpecAddress: the effective address of an operand, for every addressing *)
(* mode, with operands and index registers that cross the end of page zero *)
(* and the end of the address space                                        *)

\* how many addresses are computed from one placement of the operand bytes
MaxAddrOps == 1

\* the byte the host puts in cell i of page zero: no two cells of the page hold
\* the same byte, and page one is left at zero
ZpFill(i) == (7 * i + 3) % 256

\* the operand byte after the opcode: 0x23 is where page zero holds the word 0xFFF8
AddrOperands == { \h00, \h23, \h80, \hFE, \hFF }

\* the second operand byte of the absolute modes
AddrHighs == { \h00, \h02, \hFF }

\* the index registers
AddrIndexes == { \h00, \h01, \h02, \h81, \hFF }

\* the RAM after the host has written ZpFill(i) to every cell i of page zero
ZeroPageFilled == [i \in { j \in 0 .. 255 : ZpFill(j) # 0 } |-> ZpFill(i)]

AddrModes ==
    { "Immediate", "ZeroPage", "ZeroPage_X", "ZeroPage_Y", "Absolute", "Absolute_X",
      "Absolute_Y", "Indirect_X", "Indirect_Y" }

\* page zero filled, the operand bytes at 0x0600 and the program counter on them, as
\* the run loop leaves it after the fetch of the opcode
InitAddress ==
    /\ cart = Cart32
    /\ \E checks \in BOOLEAN, lo \in AddrOperands, hi \in AddrHighs,
          x \in AddrIndexes, y \in AddrIndexes :
          cpu = WriteAt([CpuNew(Cart32, checks)
                            EXCEPT !.cpu_vram = ZeroPageFilled, !.program_counter = AluAt,
                                   !.register_x = x, !.register_y = y],
                        AluAt, << lo, hi >>, 0)
    /\ phase = "host"
    /\ last = NoOp
    /\ prev = cpu
    /\ nops = 0
    /\ shadow = [base |-> cpu.stack_ptr, bytes |-> << >>, peak |-> 0]
    /\ given = cpu
    /\ ppu = NoPpu

\* let addr = self.get_operand_address(mode);
GetOperandAddress(mode) ==
    /\ phase = "host"
    /\ cpu.panic = NoPanic
    /\ nops < MaxAddrOps
    /\ \E r \in { get_operand_address(cpu, mode) } :
           /\ cpu' = r.c
           /\ last' = [op |-> "get_operand_address", addr |-> cpu.program_counter,
                       data |-> mode, ret |-> r.v]
    /\ prev' = cpu
    /\ nops' = nops + 1
    /\ UNCHANGED <<cart, phase, shadow, given, ppu>>

NextAddress == \E mode \in AddrModes : GetOperandAddress(mode)

SpecAddress == InitAddress /\ [][NextAddress]_vars

\* C31: zero page indexing stays in page zero: ZeroPage,X and ZeroPage,Y give
\* (operand + index) mod 256; Indirect,X reads the low byte of its target at
\* (operand + X) mod 256 and the high byte at (operand + X + 1) mod 256; Indirect,Y
\* reads its base at operand and (operand + 1) mod 256 and adds Y modulo 2^16;
\* Absolute,X and Absolute,Y add the index modulo 2^16.
C31_ZeroPageWraps ==
    (last.op = "get_operand_address" /\ cpu.panic = NoPanic) =>
        LET operand == BusByte(prev, prev.program_counter)
            word == operand + 256 * BusByte(prev, prev.program_counter + 1)
            x == prev.register_x
            y == prev.register_y
            ZpByte(p) == BusByte(prev, p % 256)
        IN  /\ last.data = "ZeroPage_X" => last.ret = (operand + x) % 256
            /\ last.data = "ZeroPage_Y" => last.ret = (operand + y) % 256
            /\ last.data = "Indirect_X" =>
                   last.ret = ZpByte(operand + x) + 256 * ZpByte(operand + x + 1)
            /\ last.data = "Indirect_Y" =>
                   last.ret = (ZpByte(operand) + 256 * ZpByte(operand + 1) + y) % 65536
            /\ last.data = "Absolute_X" => last.ret = (word + x) % 65536
            /\ last.data = "Absolute_Y" => last.ret = (word + y) % 65536

\* LDA ($FE,X) with X = 1: the pointer is at 0x00FF, its high byte at 0x0000
C31_Witness ==
    /\ last.op = "get_operand_address"
    /\ cpu.panic = NoPanic
    /\ last.data = "Indirect_X"
    /\ BusByte(prev, prev.program_counter) = \hFE
    /\ prev.register_x = \h01
    /\ last.ret = ZpFill(255) + 256 * ZpFill(0)
    /\ last.ret = \h03FC

---------------------------------------------------------------------------
(* SpecFlags: programs run from reset that end with any one of the 256     *)
(* opcodes, after instructions that push bytes and change flags            *)

RTI_OP == \h40

\* what runs before the last instruction: nothing; PHP; a byte pushed with Break set
\* and Unused clear, or with every bit set, or three of them for RTI; the flags set
\* one by one; every flag set or cleared by PLP
FlagPrefixes ==
    { << >>,
      << \h08 >>,                                   \* PHP
      << \hA9, \hDF, \h48 >>,                       \* LDA #$DF; PHA
      << \hA9, \h10, \h48 >>,                       \* LDA #$10; PHA
      << \hA9, \hFF, \h48, \h48, \h48 >>,           \* LDA #$FF; PHA; PHA; PHA
      << \hA9, \h06, \h48, \hA9, \h10, \h48, \h48 >>, \* 0x06, 0x10, 0x10 pushed
      << \h38, \hF8, \h78 >>,                       \* SEC; SED; SEI
      << \hA9, \hFF, \h48, \h28 >>,                 \* LDA #$FF; PHA; PLP
      << \hA9, \h00, \h48, \h28 >>,                 \* LDA #$00; PHA; PLP
      << \h08, \h68, \h09, \hC3, \h48 >> }          \* PHP; PLA; ORA #$C3; PHA

\* the last instruction: its operand bytes name 0x0110 and 0x0010, cells that hold
\* zero, and a branch 16 bytes forward; what it jumps to is a BRK
AnyInstruction(opcode) == SubSeq(<< opcode, \h10, \h01 >>, 1, OpLength(opcode))

FlagPrograms ==
    { prefix \o AnyInstruction(opcode) \o << BRK_OP >> :
          prefix \in FlagPrefixes, opcode \in Byte }

NextFlags ==
    \/ \E program \in FlagPrograms : TestLoadAndRun(program)
    \/ Step

\* let bus = Bus::new(rom); let mut cpu = CPU::new(bus); with the 32 KiB cartridge
InitFlags == InitHost /\ cart = Cart32

SpecFlags == InitFlags /\ [][NextFlags]_vars

\* C32: in every state reached from reset() by executing instructions, Unused (bit 5)
\* of P is 1 and Break (bit 4) of P is 0; Break is 1 in the byte PHP writes to the
\* stack, which is P with Break and Unused set, and PHP leaves P as it was.
C32_UnusedOnBreakOff ==
    /\ (phase \in {"run", "returned"}) =>
          /\ Flag(cpu, UNUSED)
          /\ ~Flag(cpu, BREAK)
    /\ (Stepped /\ last.data = PHP_OP) =>
          /\ BusByte(cpu, STACK + prev.stack_ptr) = BitOr(prev.status, BREAK + UNUSED)
          /\ BitAnd(BusByte(cpu, STACK + prev.stack_ptr), BREAK) = BREAK
          /\ cpu.status = prev.status

\* LDA #$06; PHA; LDA #$10; PHA; PHA; RTI: the byte popped into P is 0x10, Break set
\* and Unused clear, and P becomes 0x20; the run goes on at 0x0610
C32_Witness ==
    /\ Stepped
    /\ last.data = RTI_OP
    /\ StackByte(prev, 1) = \h10
    /\ cpu.status = \h20
    /\ cpu.program_counter = \h0610

---------------------------------------------------------------------------
(* SpecMirror: a PPU of each mirroring whose address register holds any    *)
(* address of the name tables, then one call                               *)

\* the variants of cartridge::Mirroring
Mirrorings == { "HORIZONTAL", "VERTICAL", "FOUR_SCREEN" }

\* the PPU addresses of the four name tables
NameTableAddrs == \h2000 .. \h2FFF

InitMirror ==
    \E mirroring \in Mirrorings, checks \in BOOLEAN, v \in NameTableAddrs :
        PpuStart(PpuAt(mirroring, checks, \h00, v, TRUE))

\* ppu.mirror_vram_addr(ppu.addr.get())
MirrorVramAddr(bound) ==
    /\ PpuCan(bound)
    /\ \E r \in { mirror_vram_addr(ppu, AddrRegister_get(ppu.addr)) } :
           PpuCall("mirror_vram_addr", AddrRegister_get(ppu.addr), r.c, r.v)

NextMirror ==
    \/ MirrorVramAddr(MaxStepOps)
    \/ WriteToData(MaxStepOps, \h5A)
    \/ ReadData(MaxStepOps)

SpecMirror == InitMirror /\ [][NextMirror]_vars

\* the name table an address of 0x2000..=0x2FFF lies in, and the offset in it
NameTable(addr) == (addr - \h2000) \div \h0400
InTable(addr) == (addr - \h2000) % \h0400

\* C33: for each mirroring (Horizontal, Vertical, FourScreen) and every PPU address
\* in 0x2000..=0x2FFF, mirror_vram_addr returns an index below 2048, so data reads
\* and writes in that range never index outside the 2 KiB VRAM array; Vertical maps
\* name tables 2,3 onto 0,1 and Horizontal maps name tables 0,1 onto the first
\* 1 KiB and 2,3 onto the second.
C33_MirrorBelow2048 ==
    LET addr == AddrRegister_get(prev.addr)
    IN  /\ (last.op = "mirror_vram_addr") =>
              /\ ppu.panic = NoPanic
              /\ last.ret < PPU_VRAM_LEN
              /\ (prev.mirroring = "VERTICAL") =>
                     last.ret = \h0400 * (NameTable(addr) % 2) + InTable(addr)
              /\ (prev.mirroring = "HORIZONTAL") =>
                     last.ret = \h0400 * (NameTable(addr) \div 2) + InTable(addr)
        /\ (last.op \in { "read_data", "write_to_data" }) => ppu.panic = NoPanic

=============================================================================
